---- MODULE Spec2Model ----
(***************************************************************************)
(* A model of the UCP reference merchant server (rest/python/server):      *)
(* the CheckoutService commands over the transaction store.                *)
(*                                                                         *)
(* Every request handler runs in its own database session.  A handler is   *)
(* a process that moves through the persistence calls of its command; the  *)
(* transaction store is the committed state plus, for the one session that *)
(* holds SQLite's write lock, the uncommitted inventory of its             *)
(* transaction.                                                            *)
(***************************************************************************)
EXTENDS Integers, Sequences, FiniteSets, TLC

(***************************************************************************)
(* Bounds of the model.                                                    *)
(***************************************************************************)
MaxEvents == 1

\* two request handlers run at a time
Procs == {1, 2}

(***************************************************************************)
(* Identifiers.  Every identifier is a 4-tuple so that client-supplied ids *)
(* and server-generated ones compare.  uuid.uuid4() yields a value never   *)
(* seen before: the n-th uuid drawn by the command with idempotency key k  *)
(* is named by (0, k, n), the uuid a handler p draws in a command without  *)
(* a key by (p, "", n).  A key is stored by at most one committed command; *)
(* when a handler p runs a command whose key another command in flight     *)
(* carries, its uuids are named by (p, k, n).  So no two uuids that meet   *)
(* are equal.                                                              *)
(***************************************************************************)
NoId == <<"", 0, "", 0>>
Cid(s) == <<s, 0, "", 0>>
Uuid(p, k, n) == <<"uuid", p, k, n>>

\* the idempotency keys the clients draw from, in the order they draw them
KeySeq == <<"k1", "k2", "k3">>
Keys == {KeySeq[i] : i \in DOMAIN KeySeq}

(***************************************************************************)
(* The catalog (products DB, read-only) and the static tables of the       *)
(* transactions DB.                                                        *)
(***************************************************************************)
CatalogIds == {"rose", "tulip"}
ItemIds == CatalogIds \cup {"ghost"}

Product(id) ==
  CASE id = "rose" -> [title |-> "Red Rose", price |-> 1000]
    [] id = "tulip" -> [title |-> "White Tulip", price |-> 800]

\* db.get_product
get_product(id) == id \in CatalogIds

Promotions ==
  << [type |-> "free_shipping", min_subtotal |-> 2000, eligible_item_ids |-> {}] >>

ShippingRates ==
  << [id |-> "exp-ship", country_code |-> "US", service_level |-> "express",
      price |-> 1500, title |-> "Express"],
     [id |-> "std-default", country_code |-> "default", service_level |-> "standard",
      price |-> 700, title |-> "Standard"],
     [id |-> "std-ship", country_code |-> "US", service_level |-> "standard",
      price |-> 500, title |-> "Standard US"] >>

Discounts ==
  << [code |-> "10OFF", type |-> "percentage", value |-> 10],
     [code |-> "35OFF", type |-> "percentage", value |-> 35],
     [code |-> "FLAT", type |-> "fixed_amount", value |-> 300] >>

(***************************************************************************)
(* Sequence helpers.                                                       *)
(***************************************************************************)
Range(s) == {s[i] : i \in DOMAIN s}

RECURSIVE SumSeq(_)
SumSeq(s) == IF s = <<>> THEN 0 ELSE Head(s) + SumSeq(Tail(s))

RECURSIVE SelectSeqBy(_, _)
\* the subsequence of s whose indices are in keep
SelectSeqBy(s, keep) ==
  IF s = <<>> THEN <<>>
  ELSE LET n == Len(s)
           init == SelectSeqBy(SubSeq(s, 1, n - 1), keep)
       IN IF n \in keep THEN Append(init, s[n]) ELSE init

\* next(x for x in s if P(x)): index of the first match, 0 when there is none
FirstIndex(s, P(_)) ==
  IF \E i \in DOMAIN s : P(s[i])
  THEN CHOOSE i \in DOMAIN s : P(s[i]) /\ \A j \in 1..(i - 1) : ~P(s[j])
  ELSE 0

RECURSIVE InsertSorted(_, _)
\* insertion of r after every element whose price is <= r.price (stable)
InsertSorted(s, r) ==
  IF s = <<>> THEN <<r>>
  ELSE IF Head(s).price <= r.price
       THEN <<Head(s)>> \o InsertSorted(Tail(s), r)
       ELSE <<r>> \o s

RECURSIVE SortByPrice(_)
\* sorted(rates, key=lambda r: r.price); Python's sort is stable
SortByPrice(s) ==
  IF s = <<>> THEN <<>>
  ELSE InsertSorted(SortByPrice(SubSeq(s, 1, Len(s) - 1)), s[Len(s)])


(***************************************************************************)
(* FulfillmentService.calculate_options: the options for a destination     *)
(* country, given the promotions, the running grand total and the product  *)
(* ids of the method.                                                      *)
(***************************************************************************)
is_free_shipping(promotions, subtotal, product_ids) ==
  \E i \in DOMAIN promotions :
     /\ promotions[i].type = "free_shipping"
     /\ \/ promotions[i].min_subtotal # 0 /\ subtotal >= promotions[i].min_subtotal
        \/ promotions[i].eligible_item_ids \cap product_ids # {}

\* db.get_shipping_rates: the rows of the country and the 'default' rows
get_shipping_rates(country) ==
  SelectSeq(ShippingRates, LAMBDA r : r.country_code \in {country, "default"})

RECURSIVE rates_by_level(_)
\* one rate per service level, in the order the levels first appear; a
\* country row replaces a 'default' row of its level
rates_by_level(rates) ==
  IF rates = <<>> THEN <<>>
  ELSE LET n == Len(rates)
           rate == rates[n]
           sofar == rates_by_level(SubSeq(rates, 1, n - 1))
           at == FirstIndex(sofar, LAMBDA r : r.service_level = rate.service_level)
       IN IF at = 0 THEN Append(sofar, rate)
          ELSE IF sofar[at].country_code = "default" /\ rate.country_code # "default"
               THEN [sofar EXCEPT ![at] = rate]
               ELSE sofar

calculate_options(country, promotions, subtotal, product_ids) ==
  IF country = "" THEN <<>>
  ELSE LET free == is_free_shipping(promotions, subtotal, product_ids)
           sorted_rates == SortByPrice(rates_by_level(get_shipping_rates(country)))
       IN [i \in DOMAIN sorted_rates |->
             LET rate == sorted_rates[i]
                 zero == free /\ rate.service_level = "standard"
             IN [id |-> rate.id,
                 title |-> IF zero THEN <<rate.title, " (Free)">> ELSE <<rate.title, "">>,
                 amount |-> IF zero THEN 0 ELSE rate.price]]

(***************************************************************************)
(* CheckoutService._recalculate_totals.                                    *)
(* A session is a record                                                   *)
(*   [id, status, line_items, methods, discounts, totals, order]           *)
(* line_items: sequence of [id, product, title, price, quantity, totals]   *)
(* methods:    fulfillment.root.methods, a sequence of                     *)
(*   [id, type, line_item_ids, groups, destinations,                       *)
(*    selected_destination_id]                                             *)
(*   groups:   sequence of [id, line_item_ids, selected_option_id, options]*)
(* discounts:  [codes, applied]                                            *)
(* totals:     sequence of [type, amount]                                  *)
(* order:      the id of the order confirmation, NoId when there is none   *)
(***************************************************************************)
\* faulty variant of Total: a discount entry is one off the amount that is
\* subtracted (C16)
Total_off(type, amount) ==
  [type |-> type, amount |-> IF type = "discount" THEN amount + 1 ELSE amount]

Total(type, amount) == [type |-> type, amount |-> amount]

\* faulty variants of recalc_line: the line is priced for one unit (C17),
\* the title the client sent is kept (C18)
recalc_line_unit(line) ==
  LET product == Product(line.product)
  IN [line EXCEPT !.price = product.price,
                  !.title = product.title,
                  !.totals = <<Total("subtotal", product.price), Total("total", product.price)>>]

recalc_line_trusting(line) ==
  LET product == Product(line.product)
      base_amount == product.price * line.quantity
  IN [line EXCEPT !.price = product.price,
                  !.totals = <<Total("subtotal", base_amount), Total("total", base_amount)>>]

\* lines 966-981: authoritative price and title, line totals
recalc_line(line) ==
  LET product == Product(line.product)
      base_amount == product.price * line.quantity
  IN [line EXCEPT !.price = product.price,
                  !.title = product.title,
                  !.totals = <<Total("subtotal", base_amount), Total("total", base_amount)>>]

\* lines 1034-1049: the product ids of the method's line items
target_product_ids(line_items, method) ==
  LET all_li_ids == [i \in DOMAIN line_items |-> line_items[i].id]
      target_li_ids == IF method.line_item_ids # <<>> THEN method.line_item_ids ELSE all_li_ids
  IN {line_items[i].product : i \in {j \in DOMAIN line_items : line_items[j].id \in Range(target_li_ids)}}

\* lines 994-1062: the options calculated for the method's selected destination
method_options(line_items, method, grand_total) ==
  IF method.type = "shipping" /\ method.selected_destination_id # NoId
  THEN LET at == FirstIndex(method.destinations,
                            LAMBDA d : d.id = method.selected_destination_id)
       IN IF at = 0 THEN <<>>
          ELSE calculate_options(method.destinations[at].address_country, Promotions,
                                 grand_total, target_product_ids(line_items, method))
  ELSE <<>>

\* line 1077-1078: refresh a group's options when some were calculated
refresh_group(group, calculated_options) ==
  IF calculated_options # <<>> THEN [group EXCEPT !.options = calculated_options] ELSE group

\* lines 1081-1101: the total of the group's selected option, -1 when the
\* group adds nothing
group_opt_total(group) ==
  IF group.selected_option_id # "" /\ group.options # <<>>
  THEN LET at == FirstIndex(group.options, LAMBDA o : o.id = group.selected_option_id)
       IN IF at = 0 THEN -1 ELSE group.options[at].amount
  ELSE -1

RECURSIVE recalc_groups(_, _, _)
\* lines 1075-1105 over the groups of one method: [groups, grand_total, totals]
recalc_groups(groups, calculated_options, acc) ==
  IF groups = <<>> THEN acc
  ELSE LET group == refresh_group(Head(groups), calculated_options)
           opt_total == group_opt_total(group)
           next == [groups |-> Append(acc.groups, group),
                    grand_total |-> IF opt_total >= 0 THEN acc.grand_total + opt_total
                                    ELSE acc.grand_total,
                    totals |-> IF opt_total >= 0
                               THEN Append(acc.totals, Total("fulfillment", opt_total))
                               ELSE acc.totals]
       IN recalc_groups(Tail(groups), calculated_options, next)

\* lines 1065-1105 for one method, given the options calculated for it:
\* acc with the method appended, [methods, grand_total, totals]
recalc_method(method, calculated_options, id, acc) ==
  IF method.selected_destination_id # NoId /\ method.groups = <<>>
  THEN [acc EXCEPT !.methods =
          Append(acc.methods,
                 [method EXCEPT !.groups =
                    << [id |-> id,
                        line_item_ids |-> method.line_item_ids,
                        selected_option_id |-> "",
                        options |-> calculated_options] >>])]
  ELSE LET with(g) ==
             [methods |-> Append(acc.methods, [method EXCEPT !.groups = g.groups]),
              grand_total |-> g.grand_total,
              totals |-> g.totals]
       IN with(recalc_groups(method.groups, calculated_options,
                             [groups |-> <<>>, grand_total |-> acc.grand_total,
                              totals |-> acc.totals]))

RECURSIVE recalc_methods(_, _, _, _, _)
\* lines 992-1105 over the methods from index j on: [methods, grand_total, totals]
recalc_methods(line_items, methods, j, acc, gen) ==
  IF j > Len(methods) THEN acc
  ELSE recalc_methods(line_items, methods, j + 1,
                      recalc_method(methods[j],
                                    method_options(line_items, methods[j], acc.grand_total),
                                    Uuid(gen.p, gen.k, 200 + j), acc),
                      gen)

\* db.get_discounts_by_codes and the discount_map lookup: 0 when the code
\* has no definition
discount_index(code) == FirstIndex(Discounts, LAMBDA d : d.code = code)

RECURSIVE Pow2(_)
Pow2(n) == IF n = 0 THEN 1 ELSE 2 * Pow2(n - 1)

RECURSIVE Pow2Mod100(_)
Pow2Mod100(n) == IF n = 0 THEN 1 ELSE (2 * Pow2Mod100(n - 1)) % 100

(***************************************************************************)
(* int(grand_total * (value / 100)) in Python: value / 100 is the double   *)
(* nearest to the quotient, the product is rounded to the nearest double   *)
(* (ties to even) and int() truncates.  For a value in 1..100 and a grand  *)
(* total of 0 or more:                                                     *)
(*  - value / 100 lies in [2^-b, 2^(1-b)), so the double is M / 2^(52+b)   *)
(*    with M the integer nearest to value * 2^(52+b) / 100, and            *)
(*    error = 100 * M - value * 2^(52+b), the centred remainder of         *)
(*    -value * 2^(52+b) modulo 100 (never a tie, 2^(52+b) being a multiple *)
(*    of 4), is 100 * 2^(52+b) times what the double is off;               *)
(*  - when 100 does not divide grand_total * value, the product is more    *)
(*    than 1/100 away from an integer and the roundings, of the order of   *)
(*    2^-40, do not reach it: the result is the integer quotient;          *)
(*  - when it does, with quotient k, the exact product is                  *)
(*    k + grand_total * error / (100 * 2^(52+b)): it rounds to k when      *)
(*    error >= 0, and when error < 0 it rounds to the double below k, and  *)
(*    truncates to k - 1, exactly when it is more than half the gap        *)
(*    2^(e-52) below k, 2^e < k <= 2^(e+1).                                *)
(***************************************************************************)
float_percent(grand_total, value) ==
  LET b == CHOOSE i \in 0..7 : value * Pow2(i) >= 100 /\ (i = 0 \/ value * Pow2(i - 1) < 100)
      x == (value * Pow2Mod100(52 + b)) % 100
      error == IF x < 50 THEN -x ELSE 100 - x
      k == (grand_total * value) \div 100
      e == CHOOSE i \in -1..30 : Pow2(i + 1) >= k /\ (i = -1 \/ Pow2(i) < k)
  IN IF (grand_total * value) % 100 # 0 \/ error >= 0 \/ k = 0 THEN k
     ELSE IF 4 * grand_total * (-error) > 100 * Pow2(b + e + 1) THEN k - 1 ELSE k

\* lines 1123-1127: int(grand_total * (value / 100)), or the fixed value;
\* int() truncates toward zero
discount_amount(discount_obj, grand_total) ==
  CASE discount_obj.type = "percentage" ->
         IF grand_total >= 0 THEN float_percent(grand_total, discount_obj.value)
         ELSE -float_percent(-grand_total, discount_obj.value)
    [] discount_obj.type = "fixed_amount" -> discount_obj.value
    [] OTHER -> 0

RECURSIVE recalc_discounts_strict(_, _)
\* faulty variant of recalc_discounts: a code without definition ends the
\* processing of the codes (C33)
recalc_discounts_strict(codes, acc) ==
  IF codes = <<>> \/ discount_index(Head(codes)) = 0 THEN acc
  ELSE LET code == Head(codes)
           amount == discount_amount(Discounts[discount_index(code)], acc.grand_total)
           next == IF amount > 0
                   THEN [applied |-> Append(acc.applied, [code |-> code, amount |-> amount]),
                         grand_total |-> acc.grand_total - amount,
                         totals |-> Append(acc.totals, Total("discount", amount))]
                   ELSE acc
       IN recalc_discounts_strict(Tail(codes), next)

RECURSIVE recalc_discounts(_, _)
\* lines 1120-1148 over the codes: [applied, grand_total, totals]
recalc_discounts(codes, acc) ==
  IF codes = <<>> THEN acc
  ELSE LET code == Head(codes)
           at == discount_index(code)
           amount == IF at = 0 THEN 0 ELSE discount_amount(Discounts[at], acc.grand_total)
           next == IF amount > 0
                   THEN [applied |-> Append(acc.applied, [code |-> code, amount |-> amount]),
                         grand_total |-> acc.grand_total - amount,
                         totals |-> Append(acc.totals, Total("discount", amount))]
                   ELSE acc
       IN recalc_discounts(Tail(codes), next)

\* _recalculate_totals: [ok, error, checkout]; a missing product raises
\* InvalidRequestError before anything else is computed
_recalculate_totals(checkout, gen) ==
  IF \E i \in DOMAIN checkout.line_items : ~get_product(checkout.line_items[i].product)
  THEN [ok |-> FALSE, error |-> "INVALID_REQUEST", checkout |-> checkout]
  ELSE LET fulfilled(line_items, subtotal) ==
             recalc_methods(line_items, checkout.methods, 1,
                            [methods |-> <<>>, grand_total |-> subtotal,
                             totals |-> <<Total("subtotal", subtotal)>>], gen)
           discounted(f) ==
             recalc_discounts(checkout.discounts.codes,
                              [applied |-> checkout.discounts.applied,
                               grand_total |-> f.grand_total, totals |-> f.totals])
           result(line_items, f, d) ==
             [ok |-> TRUE, error |-> "",
              checkout |-> [checkout EXCEPT
                              !.line_items = line_items,
                              !.methods = f.methods,
                              !.discounts = [codes |-> checkout.discounts.codes,
                                             applied |-> d.applied],
                              !.totals = Append(d.totals, Total("total", d.grand_total))]]
           after_fulfillment(line_items, f) == result(line_items, f, discounted(f))
           after_lines(line_items) ==
             after_fulfillment(
               line_items,
               fulfilled(line_items,
                         SumSeq([i \in DOMAIN line_items |-> line_items[i].totals[1].amount])))
       IN after_lines([i \in DOMAIN checkout.line_items |->
                         recalc_line(checkout.line_items[i])])



(***************************************************************************)
(* Requests.                                                               *)
(* A create body is [id, line_items, methods, codes], an update body       *)
(* [line_items, has_fulfillment, methods, has_discounts, codes]; a line    *)
(* item request is [id, product, title, price, quantity], a method request *)
(* [id, type, line_item_ids, destinations, selected_destination_id,        *)
(* groups] with group requests [id, line_item_ids, selected_option_id].    *)
(* The payment of a complete is the one instrument the route builds:       *)
(* [id, handler_id, credential, token].                                    *)
(***************************************************************************)
CheckoutIds == {Cid("c1"), Cid("c2")}

\* a line item as the client sends it: the item's id, title and price are
\* the client's
ClientLine(product, quantity, title, price) ==
  [id |-> NoId, product |-> product, title |-> title, price |-> price,
   quantity |-> quantity]

LineReq(product, quantity) == ClientLine(product, quantity, "client title", 0)

ShippingMethodReq ==
  [id |-> NoId, type |-> "shipping", line_item_ids |-> <<>>,
   destinations |-> << [id |-> Cid("dest_1"), address_country |-> "US"] >>,
   selected_destination_id |-> Cid("dest_1"),
   groups |-> << [id |-> NoId, line_item_ids |-> <<>>, selected_option_id |-> "std-ship"] >>]

CreateBody(id, line_items, codes) ==
  [id |-> id, line_items |-> line_items, methods |-> <<ShippingMethodReq>>, codes |-> codes,
   webhook_url |-> ""]

\* the create requests of the clients: a cart that takes the whole stock,
\* a cart that competes with it for the last rose, a cart of an unknown
\* product
CreateBodies ==
  { CreateBody(Cid("c1"), <<LineReq("rose", 1), LineReq("tulip", 1), LineReq("tulip", 1)>>,
               <<"10OFF">>),
    CreateBody(Cid("c2"), <<LineReq("rose", 1)>>, <<>>),
    CreateBody(Cid("c2"), <<LineReq("ghost", 1)>>, <<>>) }

UpdateBody(line_items) ==
  [line_items |-> line_items, has_fulfillment |-> FALSE, methods |-> <<>>,
   has_discounts |-> FALSE, codes |-> <<>>]

\* the update requests: a cart whose lines each fit the stock and together
\* exceed it, a cart with a line that exceeds the stock, a cart of an
\* unknown product
UpdateBodies ==
  { UpdateBody(<<LineReq("tulip", 2), LineReq("rose", 1), LineReq("tulip", 1)>>),
    UpdateBody(<<LineReq("tulip", 3)>>),
    UpdateBody(<<LineReq("ghost", 1)>>) }

Payment(token) ==
  [id |-> "instr_1", handler_id |-> "mock_payment_handler", credential |-> "token",
   token |-> token]

Payments == { Payment("success_token"), Payment("fail_token") }

\* the body of a command other than create, update and complete
NoBody == [none |-> TRUE]

(***************************************************************************)
(* CheckoutService._compute_hash: SHA-256 of the sorted-key JSON dump of   *)
(* the request.  Equal dumps give equal hashes and (SHA-256 being          *)
(* collision-free for the purposes of the model) different dumps give      *)
(* different hashes; the hash does not cover the checkout id of the path.  *)
(***************************************************************************)
_compute_hash(data) == <<"sha256", data>>

\* the data each command hashes (lines 129, 360, 600-605, 861)
request_hash(op, body) ==
  CASE op = "create" ->
         _compute_hash([model |-> "create", dump |-> [body EXCEPT !.webhook_url = ""]])
    [] op = "update" -> _compute_hash([model |-> "update", dump |-> body])
    [] op = "complete" -> _compute_hash([model |-> "complete", dump |-> body])
    [] op = "cancel" -> _compute_hash([model |-> "dict", dump |-> NoBody])

(***************************************************************************)
(* CheckoutService._process_payment: Accepted when the payment goes        *)
(* through, otherwise the error raised.                                    *)
(***************************************************************************)
\* exceptions.py: the errors payment dispatch raises.  The kind is the
\* exception class; the envelope of the response carries status and code,
\* and the message as its detail.
InvalidRequestError(message) ==
  [kind |-> "INVALID_REQUEST", status |-> 400, code |-> "INVALID_REQUEST",
   detail |-> <<message>>]
PaymentFailedError(code, status) ==
  [kind |-> "PAYMENT_FAILED", status |-> status, code |-> code, detail |-> <<>>]
Accepted == [kind |-> "", status |-> 0, code |-> "", detail |-> <<>>]

\* faulty variants of _process_payment: the mock handler accepts every
\* token (C13); every rejection of the mock handler is reported alike
\* (C14); the handler is looked at before the credential (C15)
_process_payment_lax(payment) ==
  IF payment.id = "" THEN InvalidRequestError("Missing selected_instrument_id")
  ELSE IF payment.credential = "none"
  THEN InvalidRequestError("Missing credentials in instrument")
  ELSE IF payment.handler_id \in {"mock_payment_handler", "google_pay", "shop_pay"}
          \/ payment.credential = "card"
       THEN Accepted
       ELSE InvalidRequestError("Unsupported payment handler")

_process_payment_flat(payment) ==
  IF payment.id = "" THEN InvalidRequestError("Missing selected_instrument_id")
  ELSE IF payment.credential = "none"
  THEN InvalidRequestError("Missing credentials in instrument")
  ELSE IF payment.credential = "card" THEN Accepted
  ELSE CASE payment.handler_id = "mock_payment_handler" ->
              IF payment.token = "success_token" THEN Accepted
              ELSE PaymentFailedError("PAYMENT_FAILED", 402)
         [] payment.handler_id \in {"google_pay", "shop_pay"} -> Accepted
         [] OTHER -> InvalidRequestError("Unsupported payment handler")

_process_payment_any_handler(payment) ==
  IF payment.id = "" THEN InvalidRequestError("Missing selected_instrument_id")
  ELSE IF payment.credential = "none"
  THEN InvalidRequestError("Missing credentials in instrument")
  ELSE IF payment.credential = "card" THEN Accepted
  ELSE CASE payment.handler_id = "mock_payment_handler" ->
              CASE payment.token = "success_token" -> Accepted
                [] payment.token = "fail_token" -> PaymentFailedError("INSUFFICIENT_FUNDS", 402)
                [] payment.token = "fraud_token" -> PaymentFailedError("FRAUD_DETECTED", 403)
                [] OTHER -> PaymentFailedError("UNKNOWN_TOKEN", 402)
         [] OTHER -> Accepted

\* the selected instrument is [id, handler_id, credential, token]: id "" when
\* no instrument is selected, credential "none", "card" or "token"
_process_payment(payment) ==
  IF payment.id = "" THEN InvalidRequestError("Missing selected_instrument_id")
  ELSE IF payment.credential = "none"
  THEN InvalidRequestError("Missing credentials in instrument")
  ELSE IF payment.credential = "card" THEN Accepted
  ELSE CASE payment.handler_id = "mock_payment_handler" ->
              CASE payment.token = "success_token" -> Accepted
                [] payment.token = "fail_token" -> PaymentFailedError("INSUFFICIENT_FUNDS", 402)
                [] payment.token = "fraud_token" -> PaymentFailedError("FRAUD_DETECTED", 403)
                [] OTHER -> PaymentFailedError("UNKNOWN_TOKEN", 402)
         [] payment.handler_id \in {"google_pay", "shop_pay"} -> Accepted
         [] OTHER -> InvalidRequestError("Unsupported payment handler")


(***************************************************************************)
(* The state.                                                              *)
(***************************************************************************)
VARIABLES
  inventory,    \* committed table inventory: product id -> quantity
  checkouts,    \* committed table checkouts: id -> [status, data]
  orders,       \* committed table orders: id -> order
  idem,         \* committed table idempotency_records: key -> record
  lock,         \* the handler whose transaction holds the write lock, 0 if none
  txInventory,  \* the inventory as the lock holder's transaction sees it
  pc,           \* per handler: its position in its command
  req,          \* per handler: the command it serves
  local,        \* per handler: its local variables
  out           \* the response a handler has just returned

vars == <<inventory, checkouts, orders, idem, lock, txInventory, pc, req, local, out>>

NoCheckout ==
  [id |-> NoId, status |-> "", line_items |-> <<>>, methods |-> <<>>,
   discounts |-> [codes |-> <<>>, applied |-> <<>>], totals |-> <<>>, order |-> NoId,
   webhook_url |-> ""]

NoReq == [op |-> "", target |-> NoId, key |-> "", body |-> NoBody]
NoLocal == [checkout |-> NoCheckout, insert |-> FALSE, i |-> 0, events |-> <<>>]
NoResp == [status |-> 0, code |-> "", detail |-> <<>>, body |-> NoCheckout]

Request(op, target, key, body) == [op |-> op, target |-> target, key |-> key, body |-> body]
Response(status, body) == [status |-> status, code |-> "", detail |-> <<>>, body |-> body]
Error(status, code, detail) ==
  [status |-> status, code |-> code, detail |-> detail, body |-> NoCheckout]

\* CheckoutStatus
READY_FOR_COMPLETE == "ready_for_complete"
COMPLETED == "completed"
CANCELED == "canceled"
IN_PROGRESS == "incomplete"

\* the stock the store is seeded with: the last rose and two tulips
InitInventory == [id \in CatalogIds |-> IF id = "rose" THEN 1 ELSE 2]

Init ==
  /\ inventory = InitInventory
  /\ checkouts = <<>>
  /\ orders = <<>>
  /\ idem = <<>>
  /\ lock = 0
  /\ txInventory = InitInventory
  /\ pc = [p \in Procs |-> "idle"]
  /\ req = [p \in Procs |-> NoReq]
  /\ local = [p \in Procs |-> NoLocal]
  /\ out = NoResp

(***************************************************************************)
(* The end of a handler.  Leaving the request's session scope closes the   *)
(* database session: whatever its transaction wrote and did not commit is  *)
(* rolled back and the write lock is released.                             *)
(***************************************************************************)
\* faulty variant of rolled_back: the reservations of the failed command
\* stay (C4)
rolled_back_kept(p) == IF lock = p THEN txInventory ELSE inventory

\* the inventory table after the rollback of p's transaction
rolled_back(p) == inventory

rollback(p) ==
  /\ lock' = IF lock = p THEN 0 ELSE lock
  /\ inventory' = rolled_back(p)
  /\ txInventory' = IF lock = p THEN inventory' ELSE txInventory

\* the handler p answers the request with the response
\* the uuids of the command handler p runs with the key: those of the key,
\* and the handler's own when another handler runs a command with the key
uuid4(p, key) ==
  [p |-> IF \E q \in Procs \ {p} : req[q].key = key THEN p ELSE 0, k |-> key]

Finish(p, response) ==
  /\ pc' = [pc EXCEPT ![p] = "done"]
  /\ req' = [req EXCEPT ![p] = NoReq]
  /\ local' = [local EXCEPT ![p] = NoLocal]
  /\ out' = response

\* an exception leaves the handler: nothing of the command is committed
Raise(p, response) ==
  /\ Finish(p, response)
  /\ rollback(p)
  /\ UNCHANGED <<checkouts, orders, idem>>

\* a step of p inside its command: the position and the locals change
Goto(p, position, locals) ==
  /\ pc' = [pc EXCEPT ![p] = position]
  /\ local' = [local EXCEPT ![p] = locals]
  /\ out' = NoResp

\* the handler p is free to take a request
free(p) == pc[p] \in {"idle", "done"}

\* handlers are interchangeable: a request goes to the first free one
takes(p) == free(p) /\ \A q \in Procs : q < p => ~free(q)

(***************************************************************************)
(* The idempotency guard at the head of create, update, complete and       *)
(* cancel (lines 128-140, 359-370, 598-615, 859-871).                      *)
(***************************************************************************)
\* db.get_idempotency_record
get_idempotency_record(key) == key \in DOMAIN idem

\* the status the route answers with on success
success_status(op) == IF op = "create" THEN 201 ELSE 200

\* faulty variants of idempotency_check: the guard runs every command
\* again (C5), the guard does not compare the hashes (C6)
idempotency_check_off(op, key, body) == "miss"
idempotency_check_lenient(op, key, body) ==
  IF get_idempotency_record(key) THEN "hit" ELSE "miss"

\* "hit": the cached response is returned; "conflict"; "miss": the command runs
idempotency_check(op, key, body) ==
  IF get_idempotency_record(key)
  THEN IF idem[key].request_hash # request_hash(op, body) THEN "conflict" ELSE "hit"
  ELSE "miss"


(***************************************************************************)
(* Reads of a handler: its own transaction's inventory when it holds the   *)
(* write lock, the committed one otherwise.                                *)
(***************************************************************************)
get_inventory(p, product) ==
  IF product \in DOMAIN inventory
  THEN (IF lock = p THEN txInventory[product] ELSE inventory[product])
  ELSE -1

\* faulty variant of _validate_inventory: a product without an inventory
\* row passes (C19)
_validate_inventory_rows(p, checkout) ==
  \A i \in DOMAIN checkout.line_items :
     LET qty_avail == get_inventory(p, checkout.line_items[i].product)
     IN qty_avail = -1 \/ qty_avail >= checkout.line_items[i].quantity

\* _validate_inventory: the line items whose stock is missing or too low
_validate_inventory(p, checkout) ==
  \A i \in DOMAIN checkout.line_items :
     LET qty_avail == get_inventory(p, checkout.line_items[i].product)
     IN ~(qty_avail = -1 \/ qty_avail < checkout.line_items[i].quantity)

\* faulty variant of _ensure_modifiable: a completed session counts as
\* modifiable (C7)
_ensure_modifiable_completed(checkout) == checkout.status # CANCELED

\* _ensure_modifiable
_ensure_modifiable(checkout) == checkout.status \notin {COMPLETED, CANCELED}

(***************************************************************************)
(* create_checkout, lines 142-302: the session built from the request.     *)
(***************************************************************************)
new_line_item(li_req, id) ==
  [id |-> id, product |-> li_req.product, title |-> li_req.title, price |-> 0,
   quantity |-> li_req.quantity, totals |-> <<>>]

new_group(group_req, id, all_li_ids) ==
  [id |-> IF group_req.id # NoId THEN group_req.id ELSE id,
   line_item_ids |-> IF group_req.line_item_ids # <<>> THEN group_req.line_item_ids
                     ELSE all_li_ids,
   selected_option_id |-> group_req.selected_option_id,
   options |-> <<>>]

create_method(method_req, j, all_li_ids, gen) ==
  [id |-> IF method_req.id # NoId THEN method_req.id ELSE Uuid(gen.p, gen.k, 100 + j),
   type |-> method_req.type,
   line_item_ids |-> IF method_req.line_item_ids # <<>> THEN method_req.line_item_ids
                     ELSE all_li_ids,
   groups |-> [g \in DOMAIN method_req.groups |->
                 new_group(method_req.groups[g], Uuid(gen.p, gen.k, 300 + 10 * j + g),
                           all_li_ids)],
   destinations |-> [d \in DOMAIN method_req.destinations |->
                       [id |-> IF method_req.destinations[d].id # NoId
                               THEN method_req.destinations[d].id
                               ELSE Uuid(gen.p, gen.k, 500 + 10 * j + d),
                        address_country |-> method_req.destinations[d].address_country]],
   selected_destination_id |-> method_req.selected_destination_id]

create_build(body, gen) ==
  LET line_items == [i \in DOMAIN body.line_items |->
                       new_line_item(body.line_items[i], Uuid(gen.p, gen.k, i))]
      all_li_ids == [i \in DOMAIN line_items |-> line_items[i].id]
  IN [id |-> IF body.id # NoId THEN body.id ELSE Uuid(gen.p, gen.k, 900),
      status |-> IN_PROGRESS,
      line_items |-> line_items,
      methods |-> [j \in DOMAIN body.methods |->
                     create_method(body.methods[j], j, all_li_ids, gen)],
      discounts |-> [codes |-> body.codes, applied |-> <<>>],
      totals |-> <<>>,
      order |-> NoId,
      webhook_url |-> body.webhook_url]

\* faulty variant of validated: the inventory is not validated (C9)
validated_unchecked(p, r, status) ==
  IF ~r.ok THEN r
  ELSE [ok |-> TRUE, error |-> "", checkout |-> [r.checkout EXCEPT !.status = status]]

\* lines 305-308 and 563-564: [ok, error, checkout] once the recomputed
\* session has passed inventory validation and been given the status
validated(p, r, status) ==
  IF ~r.ok THEN r
  ELSE IF ~_validate_inventory(p, r.checkout)
       THEN [ok |-> FALSE, error |-> "OUT_OF_STOCK", checkout |-> r.checkout]
       ELSE [ok |-> TRUE, error |-> "", checkout |-> [r.checkout EXCEPT !.status = status]]

create_result(p, body, gen) ==
  validated(p, _recalculate_totals(create_build(body, gen), gen), READY_FOR_COMPLETE)

\* db.save_checkout reads the row to choose between UPDATE and INSERT
row_exists(id) == id \in DOMAIN checkouts


(***************************************************************************)
(* update_checkout, lines 385-560: the request merged into the session.    *)
(***************************************************************************)
\* lines 440-457: the index of the existing method the request method
\* matches, 0 when it matches none
existing_method_index(existing, m_req) ==
  LET at == FirstIndex(existing.methods, LAMBDA m : m.id = m_req.id)
  IN IF at # 0 THEN at
     ELSE IF m_req.id = NoId /\ Len(existing.methods) = 1 THEN 1 ELSE 0

update_method(existing, m_req, j, gen) ==
  LET at == existing_method_index(existing, m_req)
      all_li_ids == [i \in DOMAIN existing.line_items |-> existing.line_items[i].id]
  IN [id |-> IF m_req.id # NoId THEN m_req.id
             ELSE IF at # 0 THEN existing.methods[at].id
             ELSE Uuid(gen.p, gen.k, 100 + j),
      type |-> m_req.type,
      line_item_ids |-> IF m_req.line_item_ids # <<>> THEN m_req.line_item_ids
                        ELSE all_li_ids,
      groups |-> IF m_req.groups # <<>>
                 THEN [g \in DOMAIN m_req.groups |->
                         new_group(m_req.groups[g], Uuid(gen.p, gen.k, 300 + 10 * j + g),
                                   all_li_ids)]
                 ELSE IF at # 0 THEN existing.methods[at].groups ELSE <<>>,
      destinations |-> IF m_req.type # "shipping" THEN <<>>
                       ELSE IF m_req.destinations # <<>> THEN m_req.destinations
                       ELSE IF at # 0 THEN existing.methods[at].destinations ELSE <<>>,
      selected_destination_id |-> m_req.selected_destination_id]

update_merge(existing, body, gen) ==
  LET lined ==
        IF body.line_items # <<>>
        THEN [existing EXCEPT !.line_items =
                [i \in DOMAIN body.line_items |->
                   new_line_item(body.line_items[i],
                                 IF body.line_items[i].id # NoId THEN body.line_items[i].id
                                 ELSE Uuid(gen.p, gen.k, i))]]
        ELSE existing
      fulfilled ==
        IF body.has_fulfillment
        THEN [lined EXCEPT !.methods =
                [j \in DOMAIN body.methods |-> update_method(lined, body.methods[j], j, gen)]]
        ELSE lined
  IN IF body.has_discounts
     THEN [fulfilled EXCEPT !.discounts = [codes |-> body.codes, applied |-> <<>>]]
     ELSE fulfilled

\* lines 562-566: [ok, error, checkout]; the status is the loaded one
update_result(p, existing, body, gen) ==
  validated(p, _recalculate_totals(update_merge(existing, body, gen), gen), existing.status)

(***************************************************************************)
(* complete_checkout, lines 632-649: the fulfillment precondition.         *)
(***************************************************************************)
fulfillment_valid(checkout) ==
  \E j \in DOMAIN checkout.methods :
     LET method == checkout.methods[j]
     IN /\ ~(method.type = "shipping" /\ method.selected_destination_id = NoId)
        /\ \E g \in DOMAIN method.groups : method.groups[g].selected_option_id # ""

(***************************************************************************)
(* update, complete and cancel after the idempotency miss: the checkout is *)
(* loaded and checked.                                                     *)
(***************************************************************************)
\* db.get_checkout_session
get_checkout_session(id) == IF id \in DOMAIN checkouts THEN checkouts[id].data ELSE NoCheckout

\* faulty variant of canceled: the cancel empties the cart (C10)
canceled_emptied(data) == [data EXCEPT !.status = CANCELED, !.line_items = <<>>]

\* cancel_checkout, line 884
canceled(data) == [data EXCEPT !.status = CANCELED]

\* faulty variant of after_load: complete takes the payment before it looks
\* at the state of the session (C27)
after_load_paying_first(op, body, data) ==
  IF data = NoCheckout
  THEN [error |-> Error(404, "RESOURCE_NOT_FOUND", <<>>), pc |-> "", checkout |-> data]
  ELSE IF op = "complete" /\ _process_payment(body) # Accepted
  THEN [error |-> Error(_process_payment(body).status, _process_payment(body).code,
                        _process_payment(body).detail),
        pc |-> "", checkout |-> data]
  ELSE IF ~_ensure_modifiable(data)
  THEN [error |-> Error(409, "CHECKOUT_NOT_MODIFIABLE", <<"Cannot", op, data.status>>),
        pc |-> "", checkout |-> data]
  ELSE CASE op = "update" -> [error |-> NoResp, pc |-> "exec", checkout |-> data]
         [] op = "cancel" ->
              [error |-> NoResp, pc |-> "commit",
               checkout |-> canceled(data)]
         [] op = "complete" ->
              IF ~fulfillment_valid(data)
              THEN [error |-> Error(400, "INVALID_REQUEST", <<>>), pc |-> "",
                    checkout |-> data]
              ELSE [error |-> NoResp,
                    pc |-> IF data.line_items = <<>> THEN "order" ELSE "reserve",
                    checkout |-> data]

\* what the handler does with the loaded checkout: an error, or the next
\* position with the local checkout
after_load(op, body, data) ==
  IF data = NoCheckout
  THEN [error |-> Error(404, "RESOURCE_NOT_FOUND", <<>>), pc |-> "", checkout |-> data]
  ELSE IF ~_ensure_modifiable(data)
  THEN [error |-> Error(409, "CHECKOUT_NOT_MODIFIABLE", <<"Cannot", op, data.status>>),
        pc |-> "", checkout |-> data]
  ELSE CASE op = "update" -> [error |-> NoResp, pc |-> "exec", checkout |-> data]
         [] op = "cancel" ->
              [error |-> NoResp, pc |-> "commit",
               checkout |-> canceled(data)]
         [] op = "complete" ->
              LET paid == _process_payment(body)
              IN IF paid # Accepted
                 THEN [error |-> Error(paid.status, paid.code, paid.detail), pc |-> "",
                       checkout |-> data]
                 ELSE IF ~fulfillment_valid(data)
                 THEN [error |-> Error(400, "INVALID_REQUEST", <<>>), pc |-> "",
                       checkout |-> data]
                 ELSE [error |-> NoResp,
                       pc |-> IF data.line_items = <<>> THEN "order" ELSE "reserve",
                       checkout |-> data]


(***************************************************************************)
(* A command from the arrival of its request to its first write.  The      *)
(* idempotency record is looked up; on a miss the command reads what it    *)
(* needs and builds the session it will save.  The write lock is taken by  *)
(* the first statement that writes.  A create writes at its commit and     *)
(* reads committed rows until then.  update, complete and cancel add the   *)
(* request's log entry to the database session after the lookup (lines     *)
(* 374, 618, 874; db.py 458-473), and the session, which flushes what is   *)
(* pending before it queries, writes the entry when the checkout is        *)
(* loaded: these commands load the checkout holding the write lock, once   *)
(* no other transaction holds it.                                          *)
(***************************************************************************)
\* the command after the idempotency miss: the error it raises, or the
\* position it reaches with its locals
failed(error) == [error |-> error, pc |-> "", local |-> NoLocal]

\* create and update: the session passed recompute and validation or not
built(r, insert) ==
  IF ~r.ok THEN failed(Error(400, r.error, <<>>))
  ELSE [error |-> NoResp, pc |-> "commit",
        local |-> [NoLocal EXCEPT !.checkout = r.checkout, !.insert = insert]]

\* update, complete and cancel: the session was loaded and checked
loaded(p, request, a) ==
  IF a.pc = "" THEN failed(a.error)
  ELSE IF request.op = "update"
  THEN built(update_result(p, a.checkout, request.body, uuid4(p, request.key)), FALSE)
  ELSE [error |-> NoResp, pc |-> a.pc,
        local |-> [NoLocal EXCEPT !.checkout = a.checkout, !.i = 1]]

started(p, request) ==
  IF request.op = "create"
  THEN built(create_result(p, request.body, uuid4(p, request.key)),
             ~row_exists(request.target))
  ELSE loaded(p, request,
              after_load(request.op, request.body, get_checkout_session(request.target)))

\* faulty variant of Proceed: the log entry is written at the commit, so
\* that the checkout is loaded without the write lock (C35)
Proceed_unflushed(p, request, s) ==
  IF s.pc = ""
  THEN Finish(p, s.error) /\ rollback(p)
  ELSE /\ req' = [req EXCEPT ![p] = request]
       /\ Goto(p, s.pc, s.local)
       /\ UNCHANGED <<lock, txInventory, inventory>>

\* the handler goes on with the command, or answers with its error; the
\* handler of an update, complete or cancel that finds the write lock held
\* waits for it with its log entry pending
Proceed(p, request, s) ==
  IF request.op # "create" /\ lock # 0
  THEN /\ req' = [req EXCEPT ![p] = request]
       /\ Goto(p, "log", NoLocal)
       /\ UNCHANGED <<lock, txInventory, inventory>>
  ELSE IF s.pc = ""
  THEN Finish(p, s.error) /\ rollback(p)
  ELSE /\ req' = [req EXCEPT ![p] = request]
       /\ Goto(p, s.pc, s.local)
       /\ lock' = IF request.op = "create" THEN lock ELSE p
       /\ UNCHANGED <<txInventory, inventory>>

\* a request arrives: its handler looks the idempotency key up and, on a
\* miss, runs the command up to its first write
Serve(p, op, target, key, body) ==
  /\ takes(p)
  /\ LET found == idempotency_check(op, key, body)
     IN CASE found = "conflict" ->
               /\ Finish(p, Error(409, "IDEMPOTENCY_CONFLICT", <<>>))
               /\ rollback(p)
          [] found = "hit" ->
               /\ Finish(p, Response(success_status(op), idem[key].response_body))
               /\ rollback(p)
          [] found = "miss" ->
               Proceed(p, Request(op, target, key, body),
                       started(p, Request(op, target, key, body)))
  /\ UNCHANGED <<checkouts, orders, idem>>

\* the write lock is free: the pending log entry is written and the
\* command runs up to its next write
Load(p) ==
  /\ pc[p] = "log"
  /\ lock = 0
  /\ Proceed(p, req[p], started(p, req[p]))
  /\ UNCHANGED <<checkouts, orders, idem>>

\* a request whose idempotency key no request in flight carries.  What
\* its lookup finds does not depend on the commands in flight, so that an
\* update, complete or cancel that has to wait for the write lock is
\* received when the lock is free.
Receive(p, op, target, key, body) ==
  /\ \A q \in Procs \ {p} : req[q].key # key
  /\ (op # "create" /\ idempotency_check(op, key, body) = "miss") => lock = 0
  /\ Serve(p, op, target, key, body)

(***************************************************************************)
(* The writes of a command and its commit.  The rows a session added or    *)
(* changed are flushed at commit; the flush needs the write lock.  An      *)
(* INSERT of a row whose primary key is already stored fails the flush     *)
(* and with it the command.                                                *)
(***************************************************************************)
\* db.save_idempotency_record: the row it adds
idempotency_row(request, status, response_body) ==
  [request_hash |-> request_hash(request.op, request.body),
   response_status |-> status,
   response_body |-> response_body]

\* db.save_checkout: the row it writes
checkout_row(checkout) == [status |-> checkout.status, data |-> checkout]

\* the flush fails on a primary key that is already stored
flush_fails(p) ==
  \/ req[p].key \in DOMAIN idem
  \/ local[p].insert /\ local[p].checkout.id \in DOMAIN checkouts

\* faulty variant of Commit: a cancel stores no idempotency record (C26)
Commit_unrecorded(p) ==
  /\ pc[p] = "commit"
  /\ lock \in {0, p}
  /\ IF flush_fails(p)
     THEN Raise(p, Error(500, "INTERNAL_ERROR", <<>>))
     ELSE LET checkout == local[p].checkout
          IN /\ checkouts' = (checkout.id :> checkout_row(checkout)) @@ checkouts
             /\ idem' = IF req[p].op = "cancel" THEN idem
                        ELSE (req[p].key :>
                                idempotency_row(req[p], success_status(req[p].op), checkout))
                             @@ idem
             /\ Finish(p, Response(success_status(req[p].op), checkout))
             /\ lock' = 0
             /\ UNCHANGED <<inventory, txInventory, orders>>

\* create, update and cancel: save_checkout, save_idempotency_record, commit
Commit(p) ==
  /\ pc[p] = "commit"
  /\ lock \in {0, p}
  /\ IF flush_fails(p)
     THEN Raise(p, Error(500, "INTERNAL_ERROR", <<>>))
     ELSE LET checkout == local[p].checkout
          IN /\ checkouts' = (checkout.id :> checkout_row(checkout)) @@ checkouts
             /\ idem' = (req[p].key :>
                           idempotency_row(req[p], success_status(req[p].op), checkout))
                        @@ idem
             /\ Finish(p, Response(success_status(req[p].op), checkout))
             /\ lock' = 0
             /\ UNCHANGED <<inventory, txInventory, orders>>

(***************************************************************************)
(* complete_checkout, lines 651-665: one line item is reserved.            *)
(***************************************************************************)
\* faulty variants of reserve_stock_ok: an UPDATE without the condition on
\* the quantity (C1), an UPDATE that always reports a changed row (C2)
reserve_stock_ok_unconditional(inv, product, quantity) == product \in DOMAIN inv
reserve_stock_ok_always(inv, product, quantity) == TRUE

\* db.reserve_stock: the conditional UPDATE finds a row to change
reserve_stock_ok(inv, product, quantity) ==
  product \in DOMAIN inv /\ inv[product] >= quantity

\* faulty variant of reserve_stock: the UPDATE takes one unit whatever the
\* quantity (C3)
reserve_stock_one(inv, product, quantity) ==
  IF product \in DOMAIN inv /\ inv[product] >= 1
  THEN [inv EXCEPT ![product] = inv[product] - 1]
  ELSE inv

\* db.reserve_stock: the inventory after the UPDATE
reserve_stock(inv, product, quantity) ==
  IF reserve_stock_ok(inv, product, quantity)
  THEN [inv EXCEPT ![product] = inv[product] - quantity]
  ELSE inv

Reserve(p) ==
  /\ pc[p] = "reserve"
  /\ lock \in {0, p}
  /\ LET line == local[p].checkout.line_items[local[p].i]
         last == local[p].i = Len(local[p].checkout.line_items)
     IN IF get_product(line.product) /\ ~reserve_stock_ok(txInventory, line.product, line.quantity)
        THEN Raise(p, Error(409, "OUT_OF_STOCK", <<line.product>>))
        ELSE /\ txInventory' = IF get_product(line.product)
                               THEN reserve_stock(txInventory, line.product, line.quantity)
                               ELSE txInventory
             /\ lock' = p
             /\ Goto(p, IF last THEN "order" ELSE "reserve",
                     [local[p] EXCEPT !.i = local[p].i + 1])
             /\ UNCHANGED <<inventory, checkouts, orders, idem, req>>

(***************************************************************************)
(* complete_checkout, lines 667-783: the order is materialised and the     *)
(* session, the order, the idempotency record and the reserved inventory   *)
(* are committed together.                                                 *)
(***************************************************************************)
RECURSIVE Flatten(_)
Flatten(ss) == IF ss = <<>> THEN <<>> ELSE Head(ss) \o Flatten(Tail(ss))

\* lines 680-695: the country of the selected destination, "" when none
selected_dest(method) ==
  LET at == IF method.selected_destination_id # NoId
            THEN FirstIndex(method.destinations,
                            LAMBDA d : d.id = method.selected_destination_id)
            ELSE 0
  IN IF at = 0 THEN "" ELSE method.destinations[at].address_country

\* lines 697-729: the expectations of one method
method_expectations(checkout, method, j, gen) ==
  LET chosen(group) ==
        IF group.selected_option_id # "" /\ group.options # <<>>
        THEN FirstIndex(group.options, LAMBDA o : o.id = group.selected_option_id)
        ELSE 0
      picked == {g \in DOMAIN method.groups : chosen(method.groups[g]) # 0}
      one(g) ==
        [id |-> Uuid(gen.p, gen.k, 600 + 10 * j + g),
         line_items |->
           LET keep == {i \in DOMAIN checkout.line_items :
                           checkout.line_items[i].id \in Range(method.groups[g].line_item_ids)}
               kept == SelectSeqBy(checkout.line_items, keep)
           IN [i \in DOMAIN kept |-> [id |-> kept[i].id, quantity |-> kept[i].quantity]],
         method_type |-> method.type,
         destination |-> selected_dest(method),
         description |-> method.groups[g].options[chosen(method.groups[g])].title]
  IN SelectSeqBy([g \in DOMAIN method.groups |->
                    IF g \in picked THEN one(g) ELSE [id |-> NoId]], picked)

order_build(checkout, gen) ==
  [id |-> checkout.order,
   checkout_id |-> checkout.id,
   line_items |-> [i \in DOMAIN checkout.line_items |->
                     [id |-> checkout.line_items[i].id,
                      product |-> checkout.line_items[i].product,
                      title |-> checkout.line_items[i].title,
                      price |-> checkout.line_items[i].price,
                      quantity |-> [total |-> checkout.line_items[i].quantity, fulfilled |-> 0],
                      totals |-> checkout.line_items[i].totals,
                      status |-> "processing"]],
   totals |-> checkout.totals,
   expectations |-> Flatten([j \in DOMAIN checkout.methods |->
                               method_expectations(checkout, checkout.methods[j], j, gen)]),
   events |-> <<>>]

\* faulty variant of completed_checkout: no order reference is attached (C11)
completed_checkout_bare(checkout, gen) == [checkout EXCEPT !.status = COMPLETED]

\* lines 667-673: the completed session
completed_checkout(checkout, gen) ==
  [checkout EXCEPT !.status = COMPLETED, !.order = Uuid(gen.p, gen.k, 901)]

\* faulty variant of CompleteOrder: the commit leaves the reservations
\* out (C39)
CompleteOrder_unreserved(p) ==
  /\ pc[p] = "order"
  /\ lock \in {0, p}
  /\ IF req[p].key \in DOMAIN idem
     THEN Raise(p, Error(500, "INTERNAL_ERROR", <<>>))
     ELSE LET gen == uuid4(p, req[p].key)
              checkout == completed_checkout(local[p].checkout, gen)
          IN /\ orders' = (checkout.order :> order_build(checkout, gen)) @@ orders
             /\ checkouts' = (checkout.id :> checkout_row(checkout)) @@ checkouts
             /\ idem' = (req[p].key :> idempotency_row(req[p], 200, checkout)) @@ idem
             /\ inventory' = inventory
             /\ txInventory' = inventory'
             /\ lock' = 0
             /\ IF checkout.webhook_url = ""
                THEN Finish(p, Response(200, checkout))
                ELSE /\ Goto(p, "notify", [local[p] EXCEPT !.checkout = checkout])
                     /\ UNCHANGED req

CompleteOrder(p) ==
  /\ pc[p] = "order"
  /\ lock \in {0, p}
  /\ IF req[p].key \in DOMAIN idem
     THEN Raise(p, Error(500, "INTERNAL_ERROR", <<>>))
     ELSE LET gen == uuid4(p, req[p].key)
              checkout == completed_checkout(local[p].checkout, gen)
          IN /\ orders' = (checkout.order :> order_build(checkout, gen)) @@ orders
             /\ checkouts' = (checkout.id :> checkout_row(checkout)) @@ checkouts
             /\ idem' = (req[p].key :> idempotency_row(req[p], 200, checkout)) @@ idem
             /\ inventory' = IF lock = p THEN txInventory ELSE inventory
             /\ txInventory' = inventory'
             /\ lock' = 0
             /\ IF checkout.webhook_url = ""
                THEN Finish(p, Response(200, checkout))
                ELSE /\ Goto(p, "notify", [local[p] EXCEPT !.checkout = checkout])
                     /\ UNCHANGED req

\* faulty variant of Notify: a notification that fails fails the command
\* (C24)
Notify_raising(p) ==
  /\ pc[p] = "notify"
  /\ \E delivered \in BOOLEAN :
        Finish(p, IF delivered THEN Response(200, local[p].checkout)
                  ELSE Error(500, "INTERNAL_ERROR", <<>>))
  /\ UNCHANGED <<inventory, checkouts, orders, idem, lock, txInventory>>

\* lines 786 and 794-816: the order_placed notification is posted to the
\* webhook; delivered or not, the command returns the session
Notify(p) ==
  /\ pc[p] = "notify"
  /\ \E delivered \in BOOLEAN : Finish(p, Response(200, local[p].checkout))
  /\ UNCHANGED <<inventory, checkouts, orders, idem, lock, txInventory>>



(***************************************************************************)
(* get_checkout: the request is logged and committed, then the session is  *)
(* read.                                                                   *)
(***************************************************************************)
GetCheckout(p, id) ==
  /\ takes(p)
  /\ lock = 0
  /\ Finish(p, IF get_checkout_session(id) = NoCheckout
            THEN Error(404, "RESOURCE_NOT_FOUND", <<>>)
            ELSE Response(200, get_checkout_session(id)))
  /\ UNCHANGED <<inventory, checkouts, orders, idem, lock, txInventory>>

(***************************************************************************)
(* Orders: update_order and ship_order.                                    *)
(***************************************************************************)
\* the order body a client sends to update_order for a stored order
OrderBodies(order) == { [order EXCEPT !.checkout_id = Cid("c9")] }

OrderIds == DOMAIN orders \cup {Cid("o9")}

\* get_order, lines 906-914: a read
GetOrder(p, id) ==
  /\ takes(p)
  /\ Finish(p, IF id \notin DOMAIN orders
            THEN Error(404, "RESOURCE_NOT_FOUND", <<>>)
            ELSE Response(200, NoCheckout))
  /\ UNCHANGED <<inventory, checkouts, orders, idem, lock, txInventory>>

\* faulty variant of UpdateOrder: the order is saved without the check
\* that it exists (C22)
UpdateOrder_upsert(p, id, body) ==
  /\ takes(p)
  /\ lock = 0
  /\ orders' = (id :> body) @@ orders
  /\ Finish(p, Response(200, NoCheckout))
  /\ UNCHANGED <<inventory, checkouts, idem, lock, txInventory>>

UpdateOrder(p, id, body) ==
  /\ takes(p)
  /\ lock = 0
  /\ IF id \notin DOMAIN orders
     THEN /\ Finish(p, Error(404, "RESOURCE_NOT_FOUND", <<>>))
          /\ UNCHANGED orders
     ELSE /\ orders' = [orders EXCEPT ![id] = body]
          /\ Finish(p, Response(200, NoCheckout))
  /\ UNCHANGED <<inventory, checkouts, idem, lock, txInventory>>

\* ship_order, lines 820-840: the order is read and the event appended
ShipLoad(p, id) ==
  /\ takes(p)
  /\ IF id \notin DOMAIN orders
     THEN Finish(p, Error(404, "RESOURCE_NOT_FOUND", <<>>))
     ELSE /\ Len(orders[id].events) < MaxEvents
          /\ req' = [req EXCEPT ![p] = Request("ship_order", id, "", NoBody)]
          /\ Goto(p, "ship",
                  [NoLocal EXCEPT !.events =
                     Append(orders[id].events,
                            [id |-> Uuid(p, "", 700 + Len(orders[id].events)),
                             type |-> "shipped"])])
  /\ UNCHANGED <<inventory, checkouts, orders, idem, lock, txInventory>>

\* ship_order, lines 842-849: the order is saved and committed; the
\* checkout is then loaded for the notification.  db.save_order (db.py
\* 436-445) assigns to the row the very dictionary db.get_order returned
\* from it, with the event appended in place; the unit of work writes a
\* column only when it finds the assigned value different from the loaded
\* one, and that comparison is the ORM's, so both outcomes are kept.
ShipCommit(p) ==
  /\ pc[p] = "ship"
  /\ lock = 0
  /\ \E flushed \in BOOLEAN :
        orders' = IF flushed
                  THEN [orders EXCEPT ![req[p].target].events = local[p].events]
                  ELSE orders
  /\ Finish(p, IF get_checkout_session(orders[req[p].target].checkout_id) = NoCheckout
            THEN Error(404, "RESOURCE_NOT_FOUND", <<>>)
            ELSE Response(200, NoCheckout))
  /\ UNCHANGED <<inventory, checkouts, idem, lock, txInventory>>

(***************************************************************************)
(* The commands a client can send.  Idempotency keys are opaque: a client  *)
(* sends a key that is stored, or the first key of KeySeq that is neither  *)
(* stored nor carried by a request in flight.                              *)
(***************************************************************************)
unused(key) == key \notin DOMAIN idem /\ \A q \in Procs : req[q].key # key

FreshKeys(seq) ==
  {seq[i] : i \in {j \in DOMAIN seq : unused(seq[j]) /\ \A h \in 1..(j - 1) : ~unused(seq[h])}}

ClientKeys == DOMAIN idem \cup FreshKeys(KeySeq)

Create(p) ==
  \E body \in CreateBodies, key \in ClientKeys : Receive(p, "create", body.id, key, body)

Update(p) ==
  \E id \in CheckoutIds, body \in UpdateBodies, key \in ClientKeys :
     Receive(p, "update", id, key, body)

Complete(p) ==
  \E id \in CheckoutIds, payment \in Payments, key \in ClientKeys :
     Receive(p, "complete", id, key, payment)

Cancel(p) ==
  \E id \in CheckoutIds, key \in ClientKeys : Receive(p, "cancel", id, key, NoBody)

Get(p) == \E id \in CheckoutIds : GetCheckout(p, id)

OrderUpdate(p) ==
  \E id \in DOMAIN orders : \E body \in OrderBodies(orders[id]) : UpdateOrder(p, id, body)

OrderUpdateMissing(p) == UpdateOrder(p, Cid("o9"), NoBody)

Ship(p) == \E id \in OrderIds : ShipLoad(p, id)

Next ==
  \E p \in Procs :
     \/ Create(p) \/ Update(p) \/ Complete(p) \/ Cancel(p) \/ Get(p)
     \/ Commit(p)
     \/ Reserve(p) \/ CompleteOrder(p)
     \/ OrderUpdate(p) \/ OrderUpdateMissing(p) \/ Ship(p) \/ ShipCommit(p)
     \/ \E id \in OrderIds : GetOrder(p, id)

Spec == Init /\ [][Next]_vars

(***************************************************************************)
(* The race for the last units of a product.  Two sessions are ready for   *)
(* completion, each asks for q tulips and the store holds exactly q; the   *)
(* first session may also hold a rose.  Two complete commands, both with   *)
(* an accepted payment and a key of their own, run at the same time, one   *)
(* per session.                                                            *)
(***************************************************************************)
MaxQty == 3

RaceKeySeq == <<"k1", "k2", "k3", "k4">>

\* the session a successful create stores for the body
ready(body, key) ==
  [_recalculate_totals(create_build(body, [p |-> 0, k |-> key]), [p |-> 0, k |-> key]).checkout
     EXCEPT !.status = READY_FOR_COMPLETE]

\* the rows of the checkout and of the idempotency record of that create
created_checkout(body, key) == body.id :> checkout_row(ready(body, key))
created_record(body, key) ==
  key :> idempotency_row(Request("create", body.id, key, body), 201, ready(body, key))

RaceBodies(q, lead) ==
  << CreateBody(Cid("c1"),
                IF lead THEN <<LineReq("rose", 1), LineReq("tulip", q)>>
                ELSE <<LineReq("tulip", q)>>, <<>>),
     CreateBody(Cid("c2"), <<LineReq("tulip", q)>>, <<>>) >>

RaceInit ==
  \E q \in 1..MaxQty, lead \in BOOLEAN :
     /\ inventory = [InitInventory EXCEPT !["tulip"] = q]
     /\ txInventory = inventory
     /\ checkouts = created_checkout(RaceBodies(q, lead)[1], "k1")
                     @@ created_checkout(RaceBodies(q, lead)[2], "k2")
     /\ idem = created_record(RaceBodies(q, lead)[1], "k1")
                @@ created_record(RaceBodies(q, lead)[2], "k2")
     /\ orders = <<>>
     /\ lock = 0
     /\ pc = [p \in Procs |-> "idle"]
     /\ req = [p \in Procs |-> NoReq]
     /\ local = [p \in Procs |-> NoLocal]
     /\ out = NoResp

\* one complete per session, each under a key no command has used
RaceComplete(p) ==
  /\ pc[p] = "idle"
  /\ \E id \in CheckoutIds, key \in FreshKeys(RaceKeySeq) :
        /\ \A q \in Procs : req[q].target # id
        /\ Serve(p, "complete", id, key, Payment("success_token"))

RaceNext == \E p \in Procs : RaceComplete(p) \/ Load(p) \/ Reserve(p) \/ CompleteOrder(p)

SpecRace == RaceInit /\ [][RaceNext]_vars

(***************************************************************************)
(* Completion of one stored session.  The session c1 holds one rose and    *)
(* was created with one of the fulfillment selections below; the store has *)
(* the rose, has none left, or has no inventory row for it.  Clients send  *)
(* complete commands with every kind of instrument, each under a key no    *)
(* command has used.                                                       *)
(***************************************************************************)
MethodReq(type, selected_destination_id, selected_option_id) ==
  [id |-> NoId, type |-> type, line_item_ids |-> <<>>,
   destinations |-> IF type = "shipping"
                    THEN << [id |-> Cid("dest_1"), address_country |-> "US"] >>
                    ELSE <<>>,
   selected_destination_id |-> selected_destination_id,
   groups |-> << [id |-> NoId, line_item_ids |-> <<>>,
                  selected_option_id |-> selected_option_id] >>]

\* the fulfillment of the session: the methods of its create request
Fulfillments ==
  { <<>>,
    <<MethodReq("shipping", Cid("dest_1"), "std-ship")>>,
    <<MethodReq("shipping", Cid("dest_1"), "")>>,
    <<MethodReq("shipping", NoId, "std-ship")>>,
    <<MethodReq("pickup", NoId, "counter")>>,
    <<MethodReq("pickup", NoId, "")>> }

HandlerIds == {"mock_payment_handler", "google_pay", "shop_pay", "other_pay"}
Tokens == {"success_token", "fail_token", "fraud_token", "other_token"}

\* the instruments the route hands to complete_checkout
Instruments ==
  {[id |-> "instr_1", handler_id |-> h, credential |-> "token", token |-> t] :
      h \in HandlerIds, t \in Tokens}
  \cup {[id |-> "instr_1", handler_id |-> h, credential |-> c, token |-> ""] :
          h \in HandlerIds, c \in {"card", "none"}}
  \cup {[id |-> "", handler_id |-> "mock_payment_handler", credential |-> "token",
          token |-> "success_token"]}

\* the inventory table: one rose in stock, none, two, or no row for it
Stocks ==
  { InitInventory, [InitInventory EXCEPT !["rose"] = 0],
    [InitInventory EXCEPT !["rose"] = 2],
    [id \in {"tulip"} |-> InitInventory[id]] }

CompleteBody(methods) ==
  [CreateBody(Cid("c1"), <<LineReq("rose", 1)>>, <<>>) EXCEPT !.methods = methods]

\* the session was created by an agent whose profile names the webhook,
\* "" when it names none
CompleteInitWith(webhook_url) ==
  \E methods \in Fulfillments, stock \in Stocks :
     /\ inventory = stock
     /\ txInventory = inventory
     /\ checkouts = created_checkout([CompleteBody(methods) EXCEPT !.webhook_url = webhook_url],
                                     "k1")
     /\ idem = created_record([CompleteBody(methods) EXCEPT !.webhook_url = webhook_url], "k1")
     /\ orders = <<>>
     /\ lock = 0
     /\ pc = [p \in Procs |-> "idle"]
     /\ req = [p \in Procs |-> NoReq]
     /\ local = [p \in Procs |-> NoLocal]
     /\ out = NoResp

CompleteInit == CompleteInitWith("")

CompleteWith(p) ==
  \E payment \in Instruments, key \in FreshKeys(RaceKeySeq) :
     Serve(p, "complete", Cid("c1"), key, payment)

CompleteNext ==
  \E p \in Procs : CompleteWith(p) \/ Load(p) \/ Reserve(p) \/ CompleteOrder(p)

SpecComplete == CompleteInit /\ [][CompleteNext]_vars

(***************************************************************************)
(* Notification.  The session c1 is stored as above, created by an agent   *)
(* with or without a webhook; clients complete it with stored and unused   *)
(* idempotency keys.                                                       *)
(***************************************************************************)
SpecNotify ==
  /\ \E webhook_url \in {"", "https://agent.example/webhook"} : CompleteInitWith(webhook_url)
  /\ [][\E p \in Procs :
          \/ \E payment \in Instruments, key \in DOMAIN idem \cup FreshKeys(KeySeq) :
                Receive(p, "complete", Cid("c1"), key, payment)
          \/ Reserve(p) \/ CompleteOrder(p) \/ Notify(p)]_vars

(***************************************************************************)
(* The checks of complete.  The session c1 is stored as above, with or     *)
(* without a fulfillment selection; clients complete c1 and the missing c2 *)
(* with an accepted or a rejected payment, and cancel c1, with stored and  *)
(* unused idempotency keys.                                                *)
(***************************************************************************)
SpecChecks ==
  /\ CompleteInit
  /\ [][\E p \in Procs :
          \/ \E id \in CheckoutIds, payment \in Payments, key \in ClientKeys :
                Receive(p, "complete", id, key, payment)
          \/ \E key \in ClientKeys : Receive(p, "cancel", Cid("c1"), key, NoBody)
          \/ Commit(p) \/ Reserve(p) \/ CompleteOrder(p)]_vars

(***************************************************************************)
(* Stacked discounts.  Clients create the session c1 of one rose, shipped   *)
(* or not, and update it, with lists of discount codes in which a code may *)
(* occur more than once.                                                   *)
(***************************************************************************)
SpecStacked ==
  /\ Init
  /\ [][\E p \in Procs :
          \/ \E product \in {"rose"}, methods \in {<<>>, <<ShippingMethodReq>>},
                codes \in { <<>>, <<"FLAT", "FLAT", "FLAT">>, <<"FLAT", "FLAT", "FLAT", "FLAT">>,
                            <<"35OFF", "35OFF", "FLAT", "FLAT", "FLAT">>,
                            <<"10OFF", "FLAT">> },
                key \in FreshKeys(KeySeq) :
                Receive(p, "create", Cid("c1"), key,
                        [CreateBody(Cid("c1"), <<LineReq(product, 1)>>, codes)
                           EXCEPT !.methods = methods])
          \/ \E codes \in { <<"FLAT">>, <<"FLAT", "FLAT", "FLAT", "FLAT">> },
                key \in FreshKeys(KeySeq) :
                Receive(p, "update", Cid("c1"), key,
                        [UpdateBody(<<>>) EXCEPT !.has_discounts = TRUE, !.codes = codes])
          \/ Commit(p)]_vars

(***************************************************************************)
(* A price change.  The session c1 of one rose was created and stored      *)
(* while the catalog listed the rose at the price `was`; the catalog now   *)
(* lists it at the price of Product.  Clients complete c1 with unused      *)
(* keys.                                                                   *)
(***************************************************************************)
SpecRepriced ==
  /\ \E methods \in Fulfillments, was \in {900, 1000, 1200} :
        LET asof(now) ==
              [now EXCEPT
                 !.line_items[1].price = was,
                 !.line_items[1].totals = <<Total("subtotal", was), Total("total", was)>>,
                 !.totals = [t \in DOMAIN now.totals |->
                               IF now.totals[t].type = "fulfillment" THEN now.totals[t]
                               ELSE Total(now.totals[t].type,
                                          now.totals[t].amount - now.line_items[1].price + was)]]
            begins(stored) ==
              /\ checkouts = Cid("c1") :> checkout_row(stored)
              /\ idem = "k1" :> idempotency_row(Request("create", Cid("c1"), "k1",
                                                        CompleteBody(methods)), 201, stored)
        IN /\ begins(asof(ready(CompleteBody(methods), "k1")))
           /\ inventory = InitInventory
           /\ txInventory = inventory
           /\ orders = <<>>
           /\ lock = 0
           /\ pc = [p \in Procs |-> "idle"]
           /\ req = [p \in Procs |-> NoReq]
           /\ local = [p \in Procs |-> NoLocal]
           /\ out = NoResp
  /\ [][\E p \in Procs :
          \/ \E payment \in Payments, key \in FreshKeys(KeySeq) :
                Serve(p, "complete", Cid("c1"), key, payment)
          \/ Load(p) \/ Reserve(p) \/ CompleteOrder(p)]_vars

(***************************************************************************)
(* The fulfillment evaluator on its own.  calculate_options is called with *)
(* a country, the rows of the promotions table, a subtotal and the product *)
(* ids of the line items; the call is kept in `out`: detail holds the      *)
(* arguments and body the options returned.                                *)
(***************************************************************************)
SpecEvaluate ==
  /\ Init
  /\ [][\E country \in {"", "US", "CA"},
           subtotal \in {0, 1000, 2000, 2800},
           product_ids \in SUBSET CatalogIds,
           promotions \in
             LET free_shipping(min_subtotal, eligible_item_ids) ==
                   [type |-> "free_shipping", min_subtotal |-> min_subtotal,
                    eligible_item_ids |-> eligible_item_ids]
             IN { <<>>,
                  <<free_shipping(2000, {})>>,
                  <<free_shipping(0, {})>>,
                  <<free_shipping(5000, {"rose"})>>,
                  <<[free_shipping(0, {"tulip"}) EXCEPT !.type = "percent_off"]>>,
                  <<free_shipping(5000, {}), free_shipping(1000, {})>> } :
          /\ out' = [status |-> 200, code |-> "",
                     detail |-> <<country, promotions, subtotal, product_ids>>,
                     body |-> calculate_options(country, promotions, subtotal, product_ids)]
          /\ UNCHANGED <<inventory, checkouts, orders, idem, lock, txInventory, pc, req,
                         local>>]_vars

(***************************************************************************)
(* The fulfillment merge.  The session c1 is stored as above; clients      *)
(* update its fulfillment with one method that has no id.  A method        *)
(* request names in `given` the lists its JSON carries: a list that is     *)
(* given and empty is an explicit empty list, a list that is not given is  *)
(* omitted (None in the request model); the merge sees both as <<>>.       *)
(***************************************************************************)
MergeBodies ==
  LET method(type, given, destinations, selected_destination_id, groups) ==
        [id |-> NoId, type |-> type, line_item_ids |-> <<>>, given |-> given,
         destinations |-> destinations,
         selected_destination_id |-> selected_destination_id, groups |-> groups]
      home == << [id |-> Cid("dest_1"), address_country |-> "US"] >>
      nowhere == << [id |-> Cid("dest_2"), address_country |-> ""] >>
      express == << [id |-> NoId, line_item_ids |-> <<>>, selected_option_id |-> "exp-ship"] >>
  IN { [UpdateBody(<<>>) EXCEPT !.has_fulfillment = TRUE, !.methods = <<m>>] :
         m \in { method("shipping", {}, <<>>, Cid("dest_1"), <<>>),
                 method("shipping", {"destinations", "groups"}, <<>>, NoId, <<>>),
                 method("shipping", {"destinations"}, nowhere, Cid("dest_2"), <<>>),
                 method("shipping", {"destinations", "groups"}, home, Cid("dest_1"), express),
                 method("pickup", {}, <<>>, NoId, <<>>) } }

SpecMerge ==
  /\ CompleteInit
  /\ [][\E p \in Procs :
          \/ \E body \in MergeBodies, key \in ClientKeys :
                Receive(p, "update", Cid("c1"), key, body)
          \/ Commit(p)]_vars

(***************************************************************************)
(* Stock.  The session c1 of one rose is stored as above, with the stock   *)
(* ample, sold out or without a row for the roses; clients create the      *)
(* session c2, update c1 and complete c1 with carts that fit the stock,    *)
(* exceed it or name a product that is not in the catalog.                 *)
(***************************************************************************)
StockCarts ==
  { <<LineReq("rose", 1)>>, <<LineReq("tulip", 1)>>, <<LineReq("tulip", MaxQty)>>,
    <<LineReq("tulip", MaxQty), LineReq("ghost", 1)>> }

StockCommands ==
  {Request("create", Cid("c2"), "", CreateBody(Cid("c2"), cart, <<>>)) : cart \in StockCarts}
  \cup {Request("update", Cid("c1"), "", UpdateBody(cart)) : cart \in StockCarts}
  \cup {Request("complete", Cid("c1"), "", Payment("success_token"))}

StockCommand(p) ==
  \E c \in StockCommands, key \in FreshKeys(KeySeq) :
     Receive(p, c.op, c.target, key, c.body)

StockNext ==
  \E p \in Procs : StockCommand(p) \/ Commit(p) \/ Reserve(p) \/ CompleteOrder(p)

SpecStock == CompleteInit /\ [][StockNext]_vars

(***************************************************************************)
(* One key.  The session c1 is stored as above and every request carries   *)
(* the idempotency key k2.  Two requests in flight are the same request:   *)
(* both have missed the idempotency lookup and both run the command.       *)
(***************************************************************************)
SameKey(p) ==
  \E c \in StockCommands :
     /\ \A q \in Procs \ {p} :
           req[q].key = "k2" => req[q] = Request(c.op, c.target, "k2", c.body)
     /\ Serve(p, c.op, c.target, "k2", c.body)

SameKeyNext ==
  \E p \in Procs : SameKey(p) \/ Load(p) \/ Commit(p) \/ Reserve(p) \/ CompleteOrder(p)

SpecSameKey == CompleteInit /\ [][SameKeyNext]_vars

(***************************************************************************)
(* Version negotiation (dependencies.py, common_headers): every route      *)
(* validates the UCP-Agent header before its command runs.  A string is    *)
(* the sequence of the code points of its characters.  The session c1 is   *)
(* stored as above and the clients send the commands above under           *)
(* UCP-Agent headers without a version and with versions before, at and    *)
(* after the server's.                                                     *)
(***************************************************************************)
\* the ISO date "YYYY-MM-DD" of <<year, month, day>>
iso(date) ==
  LET digit(n) == 48 + n
  IN << digit(date[1] \div 1000), digit((date[1] \div 100) % 10),
        digit((date[1] \div 10) % 10), digit(date[1] % 10), 45,
        digit(date[2] \div 10), digit(date[2] % 10), 45,
        digit(date[3] \div 10), digit(date[3] % 10) >>

\* faulty variant of str_gt: a >= b (C23)
RECURSIVE str_ge(_, _)
str_ge(a, b) ==
  IF b = <<>> THEN TRUE
  ELSE IF a = <<>> THEN FALSE
  ELSE IF Head(a) # Head(b) THEN Head(a) > Head(b)
  ELSE str_ge(Tail(a), Tail(b))

\* a > b on Python strings: the first differing code point decides, a
\* proper prefix is smaller
RECURSIVE str_gt(_, _)
str_gt(a, b) ==
  IF a = <<>> THEN FALSE
  ELSE IF b = <<>> THEN TRUE
  ELSE IF Head(a) # Head(b) THEN Head(a) > Head(b)
  ELSE str_gt(Tail(a), Tail(b))

\* config.get_server_version: the version of the discovery profile
get_server_version == iso(<<2026, 1, 11>>)

\* the dates of the versions the agents carry; <<>> for no version
AgentDates ==
  { <<>>, <<1999, 12, 31>>, <<2025, 12, 31>>, <<2026, 1, 11>>, <<2026, 1, 12>>,
    <<2026, 2, 1>>, <<2099, 1, 1>> }

\* a UCP-Agent header: whether the version pattern matches in it, and the
\* version it then captures
UcpAgent(date) ==
  [match |-> date # <<>>, version |-> IF date = <<>> THEN <<>> ELSE iso(date)]

\* validate_ucp_headers: TRUE unless it raises VERSION_UNSUPPORTED
validate_ucp_headers(ucp_agent) ==
  LET agent_version == IF ucp_agent.match THEN ucp_agent.version ELSE get_server_version
  IN ~str_gt(agent_version, get_server_version)

\* a route: the headers are validated, then the command runs
Route(p, ucp_agent, c, key) ==
  IF validate_ucp_headers(ucp_agent)
  THEN Receive(p, c.op, c.target, key, c.body)
  ELSE /\ takes(p)
       /\ Finish(p, Error(400, "VERSION_UNSUPPORTED", <<>>))
       /\ UNCHANGED <<inventory, txInventory, lock, checkouts, orders, idem>>

Versioned(p) ==
  \E date \in AgentDates, c \in StockCommands, key \in FreshKeys(KeySeq) :
     Route(p, UcpAgent(date), c, key)

SpecVersion ==
  CompleteInit
  /\ [][\E p \in Procs : Versioned(p) \/ Commit(p) \/ Reserve(p) \/ CompleteOrder(p)]_vars

(***************************************************************************)
(* Recompute.  The store is well stocked and empty of sessions; a client   *)
(* creates the session c1 from a cart, a fulfillment selection and         *)
(* discount codes of its choice, with titles and prices of its own on the  *)
(* line items, and updates it.                                             *)
(***************************************************************************)
TotalsInventory == [id \in CatalogIds |-> MaxQty + 2]

TotalsKeySeq == <<"k1", "k2">>

\* the carts a client may send; every line item carries one of two claims
\* of the client about its title and price
Carts ==
  UNION { { <<ClientLine("rose", 1, claim[1], claim[2])>>,
            <<ClientLine("rose", 2, claim[1], claim[2]),
              ClientLine("tulip", 1, claim[1], claim[2])>>,
            <<ClientLine("tulip", MaxQty, claim[1], claim[2])>> } :
          claim \in { <<"client title", 0>>, <<"Bargain", 1>> } }

TotalsCreateBodies ==
  { [CreateBody(Cid("c1"), cart, codes) EXCEPT !.methods = methods] :
      cart \in Carts,
      codes \in { <<>>, <<"10OFF">>, <<"FLAT", "10OFF">>, <<"BOGUS", "10OFF">>, <<"35OFF">> },
      methods \in { <<>>,
                    <<MethodReq("shipping", Cid("dest_1"), "std-ship")>>,
                    <<MethodReq("shipping", Cid("dest_1"), "exp-ship")>> } }

TotalsUpdateBodies ==
  { [UpdateBody(cart) EXCEPT !.has_discounts = codes # <<>>, !.codes = codes] :
      cart \in {<<>>} \cup Carts, codes \in {<<>>, <<"FLAT">>} }

TotalsInit ==
  /\ inventory = TotalsInventory
  /\ txInventory = inventory
  /\ checkouts = <<>>
  /\ orders = <<>>
  /\ idem = <<>>
  /\ lock = 0
  /\ pc = [p \in Procs |-> "idle"]
  /\ req = [p \in Procs |-> NoReq]
  /\ local = [p \in Procs |-> NoLocal]
  /\ out = NoResp

TotalsCreate(p) ==
  \E body \in TotalsCreateBodies, key \in FreshKeys(TotalsKeySeq) :
     Receive(p, "create", body.id, key, body)

TotalsUpdate(p) ==
  \E body \in TotalsUpdateBodies, key \in FreshKeys(TotalsKeySeq) :
     Receive(p, "update", Cid("c1"), key, body)

TotalsNext == \E p \in Procs : TotalsCreate(p) \/ TotalsUpdate(p) \/ Commit(p)

SpecTotals == TotalsInit /\ [][TotalsNext]_vars

(***************************************************************************)
(* Properties.                                                             *)
(***************************************************************************)
\* the stored state: the four tables
Stored == <<inventory, checkouts, orders, idem>>

\* a step in which handler p may have received a request: it is the
\* handler that takes the next request and no other handler moves
receives(p) == takes(p) /\ \A q \in Procs \ {p} : pc'[q] = pc[q]

\* the handler p answers in this step
answers(p) == pc[p] # "done" /\ pc'[p] = "done"

\* the quantity the line items request of the product
RECURSIVE requested(_, _)
requested(line_items, product) ==
  IF line_items = <<>> THEN 0
  ELSE (IF Head(line_items).product = product THEN Head(line_items).quantity ELSE 0)
       + requested(Tail(line_items), product)

RaceEnded == \A p \in Procs : pc[p] = "done"

\* C1: when two complete commands run concurrently on two ready sessions
\* that each ask for q units of a product of which exactly q are in stock,
\* exactly one of them succeeds (one session is completed, with its order
\* and its recorded 200 response), the other one answers 409 OUT_OF_STOCK
\* and leaves its session ready_for_complete, and the stock ends at 0.
C1_InventoryRace ==
  RaceEnded =>
    /\ Cardinality({id \in DOMAIN checkouts : checkouts[id].status = COMPLETED}) = 1
    /\ Cardinality({id \in DOMAIN checkouts : checkouts[id].status = READY_FOR_COMPLETE}) = 1
    /\ Cardinality(DOMAIN orders) = 1
    /\ Cardinality({k \in DOMAIN idem : idem[k].response_status = 200
                                         /\ idem[k].response_body.status = COMPLETED}) = 1
    /\ out = Error(409, "OUT_OF_STOCK", <<"tulip">>)
    /\ inventory["tulip"] = 0

\* both commands of the race have answered
C1_RaceRun == RaceEnded /\ orders # <<>> /\ lock = 0

\* C2: in every reachable state the quantity of every product is a
\* natural number, in the committed inventory and in the inventory the
\* open transaction sees.
C2_InventoryNonNegative ==
  \A id \in DOMAIN inventory : inventory[id] \in Nat /\ txInventory[id] \in Nat

\* a complete has sold the whole stock of a product
C2_SoldOut == \E id \in DOMAIN inventory : inventory[id] = 0 /\ orders # <<>>

\* C3: a complete that succeeds lowers the inventory of every product by
\* the quantity its session requests of it, summed over the line items,
\* and leaves every other product's inventory as it was.
C3_CompleteDecrements ==
  [][\A p \in Procs :
       (pc[p] = "order" /\ answers(p) /\ out'.status = 200) =>
          \A id \in DOMAIN inventory :
             inventory'[id] = inventory[id]
                              - requested(checkouts'[req[p].target].data.line_items, id)]_vars

\* a session with two line items of one product has been completed
C3_MultiLineCompleted ==
  \E id \in DOMAIN checkouts :
     /\ checkouts[id].status = COMPLETED
     /\ \E i, j \in DOMAIN checkouts[id].data.line_items :
           i # j /\ checkouts[id].data.line_items[i].product
                      = checkouts[id].data.line_items[j].product
     /\ out = Response(200, checkouts[id].data)

\* the commands with an idempotency key that the clients send
Commands ==
  {Request("create", body.id, "", body) : body \in CreateBodies}
  \cup {Request("update", id, "", body) : id \in CheckoutIds, body \in UpdateBodies}
  \cup {Request("complete", id, "", payment) : id \in CheckoutIds, payment \in Payments}
  \cup {Request("cancel", id, "", NoBody) : id \in CheckoutIds}

\* C5: the record stored with a successful create, update, complete or
\* cancel holds the response that command returned and never changes; a
\* later invocation with the same key and the same request hash returns
\* the stored body and changes neither inventory, sessions, orders nor
\* idempotency records.
C5_ReplayReturnsFirstResponse ==
  [][/\ \A key \in DOMAIN idem : key \in DOMAIN idem' /\ idem'[key] = idem[key]
     /\ \A key \in DOMAIN idem' \ DOMAIN idem :
           /\ idem'[key].response_body = out'.body
           /\ idem'[key].response_status = out'.status
     /\ \A p \in Procs :
           receives(p) =>
              \A key \in DOMAIN idem, c \in Commands :
                 (/\ idem[key].request_hash = request_hash(c.op, c.body)
                  /\ Receive(p, c.op, c.target, key, c.body))
                 => /\ out' = Response(idem[key].response_status, idem[key].response_body)
                    /\ UNCHANGED Stored]_vars

\* a replayed create has answered with the session as it was created,
\* although the session has been completed or canceled since
C5_Replayed ==
  /\ out.status = 201 /\ out.body.status = READY_FOR_COMPLETE
  /\ out.body.id \in DOMAIN checkouts
  /\ checkouts[out.body.id].status \in {COMPLETED, CANCELED}
  /\ \A p \in Procs : pc[p] \in {"idle", "done"}

\* C6: an invocation of create, update, complete or cancel whose key has a
\* stored record with another request hash answers 409
\* IDEMPOTENCY_CONFLICT and changes neither sessions, orders, inventory
\* nor idempotency records: every step is such an answer, or it is not the
\* receipt of a request whose key is stored with another hash.
C6_ConflictRejected ==
  [][\/ /\ out'.status = 409 /\ out'.code = "IDEMPOTENCY_CONFLICT"
        /\ UNCHANGED Stored
     \/ \A p \in Procs :
           receives(p) =>
              \A key \in DOMAIN idem, c \in Commands :
                 ~(/\ idem[key].request_hash # request_hash(c.op, c.body)
                   /\ Receive(p, c.op, c.target, key, c.body))]_vars

\* a request has been rejected for its reused key
C6_Conflicted == out.status = 409 /\ out.code = "IDEMPOTENCY_CONFLICT" /\ idem # <<>>

terminal(id) == id \in DOMAIN checkouts /\ checkouts[id].status \in {COMPLETED, CANCELED}

\* the answer to a mutation of a terminal session
not_modifiable(c) ==
  /\ out'.status = 409 /\ out'.code = "CHECKOUT_NOT_MODIFIABLE"
  /\ out'.detail = <<"Cannot", c.op, checkouts[c.target].status>>
  /\ UNCHANGED Stored

\* C7 as stated: every update, complete or cancel addressed to a completed
\* or canceled session is rejected with 409 CHECKOUT_NOT_MODIFIABLE,
\* whatever idempotency key and body it carries, and completing a
\* completed session reports "Cannot complete checkout in state
\* 'completed'".
C7_TerminalRejectsWhateverKey ==
  [][\A p \in Procs :
       receives(p) =>
          \A c \in Commands, key \in ClientKeys :
             (/\ c.op \in {"update", "complete", "cancel"}
              /\ terminal(c.target)
              /\ Receive(p, c.op, c.target, key, c.body))
             => not_modifiable(c)]_vars

\* C7, amended: every update, complete or cancel addressed to a completed
\* or canceled session under an idempotency key that has no stored record
\* is rejected with 409 CHECKOUT_NOT_MODIFIABLE and changes nothing, and
\* completing a completed session reports "Cannot complete checkout in
\* state 'completed'".
C7_TerminalRejectsFreshKey ==
  [][\A p \in Procs :
       receives(p) =>
          \A c \in Commands, key \in ClientKeys \ DOMAIN idem :
             (/\ c.op \in {"update", "complete", "cancel"}
              /\ terminal(c.target)
              /\ Receive(p, c.op, c.target, key, c.body))
             => not_modifiable(c)]_vars

\* a second complete of a completed session has been rejected
C7_CompletedRejected ==
  /\ out.status = 409 /\ out.code = "CHECKOUT_NOT_MODIFIABLE"
  /\ out.detail = <<"Cannot", "complete", COMPLETED>>

\* C8 as stated: once the persisted status of a session is completed or
\* canceled, no step of a create, update, complete or cancel changes its
\* persisted status or body.
C8_TerminalFrozen ==
  [][\A id \in DOMAIN checkouts :
       terminal(id) => id \in DOMAIN checkouts' /\ checkouts'[id] = checkouts[id]]_vars

\* the line items a create or an update gives the session
lines_of(c) ==
  IF c.op = "update" /\ c.body.line_items = <<>>
  THEN checkouts[c.target].data.line_items
  ELSE c.body.line_items

unknown_product(c) == \E i \in DOMAIN lines_of(c) : ~get_product(lines_of(c)[i].product)

short_of_stock(c) ==
  \E i \in DOMAIN lines_of(c) :
     /\ get_product(lines_of(c)[i].product)
     /\ inventory[lines_of(c)[i].product] < lines_of(c)[i].quantity

\* C9: a create or update that succeeds persists the session with status
\* ready_for_complete; a create, or an update of a modifiable session,
\* whose line items name an unknown product answers INVALID_REQUEST, one
\* whose line items exceed the stock answers OUT_OF_STOCK, and both leave
\* sessions, orders, inventory and idempotency records as they were.
C9_ReadyOrNothing ==
  [][\A p \in Procs :
       /\ (pc[p] = "commit" /\ req[p].op \in {"create", "update"} /\ answers(p)
            /\ out'.status \in {200, 201})
          => /\ checkouts'[req[p].target].status = READY_FOR_COMPLETE
             /\ checkouts'[req[p].target].data.status = READY_FOR_COMPLETE
             /\ out'.body = checkouts'[req[p].target].data
       /\ receives(p) =>
            \A c \in Commands, key \in ClientKeys \ DOMAIN idem :
               (/\ c.op = "create" \/ (c.op = "update" /\ c.target \in DOMAIN checkouts
                                                       /\ ~terminal(c.target))
                /\ unknown_product(c) \/ short_of_stock(c)
                /\ Receive(p, c.op, c.target, key, c.body))
               => /\ out'.status = 400
                  /\ out'.code = IF unknown_product(c) THEN "INVALID_REQUEST"
                                  ELSE "OUT_OF_STOCK"
                  /\ UNCHANGED Stored
                  /\ key \notin DOMAIN idem']_vars

\* an update that exceeds the stock has been refused and the stored
\* session is still ready_for_complete
C9_UpdateRefused ==
  /\ out.status = 400 /\ out.code = "OUT_OF_STOCK"
  /\ \E id \in DOMAIN checkouts : checkouts[id].status = READY_FOR_COMPLETE
  /\ inventory = InitInventory

\* C10: a cancel of a stored session that is neither completed nor
\* canceled goes through: it answers 200 and persists the session as it
\* loaded it, with status canceled and nothing else changed; the other
\* sessions, the inventory and the orders are as before.
C10_CancelOnlyCancels ==
  [][\A p \in Procs :
       /\ receives(p) =>
            \A c \in Commands, key \in ClientKeys \ DOMAIN idem :
               (/\ c.op = "cancel" /\ c.target \in DOMAIN checkouts /\ ~terminal(c.target)
                /\ Receive(p, c.op, c.target, key, c.body))
               => /\ pc'[p] = "commit"
                  /\ local'[p].checkout.status = CANCELED
                  /\ [local'[p].checkout EXCEPT !.status = checkouts[c.target].status]
                       = checkouts[c.target].data
       /\ (pc[p] = "commit" /\ req[p].op = "cancel" /\ answers(p))
          => /\ out' = Response(200, local[p].checkout)
             /\ checkouts'[req[p].target] = [status |-> CANCELED, data |-> local[p].checkout]
             /\ \A id \in DOMAIN checkouts \ {req[p].target} :
                   id \in DOMAIN checkouts' /\ checkouts'[id] = checkouts[id]
             /\ DOMAIN checkouts' = DOMAIN checkouts
             /\ inventory' = inventory
             /\ orders' = orders]_vars

\* a session with line items has been canceled
C10_Canceled ==
  /\ out.status = 200 /\ out.body.status = CANCELED /\ out.body.line_items # <<>>
  /\ checkouts[out.body.id] = [status |-> CANCELED, data |-> out.body]

\* C4: a complete whose atomic reserve fails answers 409 OUT_OF_STOCK and
\* leaves nothing behind: the committed inventory is what it was, the
\* reservations of its earlier line items are gone, no session, order or
\* idempotency record is written, and the session it loaded was
\* ready_for_complete without an order and is not touched.
C4_ReserveFailureRollsBack ==
  [][\A p \in Procs :
       (pc[p] = "reserve" /\ answers(p)) =>
          /\ out'.status = 409 /\ out'.code = "OUT_OF_STOCK"
          /\ inventory' = inventory
          /\ txInventory' = inventory
          /\ lock' = 0
          /\ UNCHANGED <<checkouts, orders, idem>>
          /\ req[p].key \notin DOMAIN idem'
          /\ local[p].checkout.status = READY_FOR_COMPLETE
          /\ local[p].checkout.order = NoId]_vars

\* a complete has failed on a tulip line although the store holds its two
\* tulips again: the command had reserved them for an earlier line
C4_FailsAfterReserving ==
  /\ out.status = 409 /\ out.code = "OUT_OF_STOCK" /\ out.detail = <<"tulip">>
  /\ inventory = InitInventory /\ txInventory = InitInventory /\ lock = 0
  /\ orders = <<>>

\* the order reference a stored session carries, NoId when it carries none
order_of(rows, id) == rows[id].data.order

shipping_selected(checkout) ==
  \E j \in DOMAIN checkout.methods :
     /\ checkout.methods[j].type = "shipping"
     /\ checkout.methods[j].selected_destination_id # NoId
     /\ \E g \in DOMAIN checkout.methods[j].groups :
           checkout.methods[j].groups[g].selected_option_id # ""

\* C12 as stated: a complete succeeds only if some shipping method of the
\* session has a selected destination and a group with a selected option;
\* a complete (with an instrument that payment dispatch accepts) of a
\* modifiable session without such a method answers INVALID_REQUEST and
\* leaves sessions, inventory, orders and idempotency records unchanged.
C12_ShippingSelectionRequired ==
  [][\A p \in Procs :
       /\ (pc[p] = "order" /\ answers(p) /\ out'.status = 200)
          => shipping_selected(local[p].checkout)
       /\ receives(p) =>
            \A payment \in Instruments, key \in FreshKeys(RaceKeySeq) :
               (/\ ~terminal(Cid("c1"))
                /\ _process_payment(payment) = Accepted
                /\ ~shipping_selected(checkouts[Cid("c1")].data)
                /\ Receive(p, "complete", Cid("c1"), key, payment))
               => /\ out' = Error(400, "INVALID_REQUEST", <<>>)
                  /\ UNCHANGED Stored]_vars

\* the instrument is one the mock handler rejects
rejected(payment) ==
  /\ payment.id # "" /\ payment.credential = "token"
  /\ payment.handler_id = "mock_payment_handler" /\ payment.token # "success_token"

\* C13: a complete of a modifiable session with an instrument that payment
\* dispatch rejects answers with the payment failure (status 402 or 403)
\* and changes neither the session, which stays ready_for_complete, nor
\* inventory, orders or idempotency records; a complete under a fresh key
\* with an accepted instrument and the fulfillment selection present is
\* taken up, fails afterwards only when a reserve finds too little stock,
\* and otherwise ends with 200 and the session completed.
C13_PaymentFailureAllowsRetry ==
  [][\A p \in Procs :
       /\ receives(p) =>
            \A payment \in Instruments, key \in FreshKeys(RaceKeySeq) :
               (/\ ~terminal(Cid("c1"))
                /\ Receive(p, "complete", Cid("c1"), key, payment))
               => /\ rejected(payment)
                     => /\ _process_payment(payment).kind = "PAYMENT_FAILED"
                        /\ out' = Error(_process_payment(payment).status,
                                        _process_payment(payment).code, <<>>)
                        /\ out'.status \in {402, 403}
                        /\ UNCHANGED Stored
                        /\ checkouts'[Cid("c1")].status = READY_FOR_COMPLETE
                  /\ (_process_payment(payment) = Accepted
                      /\ fulfillment_valid(checkouts[Cid("c1")].data))
                     => pc'[p] = "reserve"
       /\ (pc[p] = "reserve" /\ answers(p))
          => ~reserve_stock_ok(txInventory,
                               local[p].checkout.line_items[local[p].i].product,
                               local[p].checkout.line_items[local[p].i].quantity)
       /\ (pc[p] = "order" /\ answers(p))
          => /\ out'.status = 200
             /\ checkouts'[req[p].target].status = COMPLETED]_vars

\* a payment has just failed for lack of funds: the session is still ready,
\* the rose is still in stock and no order is stored
C13_PaymentFailed ==
  /\ out = Error(402, "INSUFFICIENT_FUNDS", <<>>)
  /\ checkouts[Cid("c1")].status = READY_FOR_COMPLETE
  /\ inventory = InitInventory /\ orders = <<>>
  /\ fulfillment_valid(checkouts[Cid("c1")].data)

\* the complete goes on after payment dispatch: it starts reserving, or it
\* lacks the fulfillment selection
paid_step(p, payment) ==
  /\ _process_payment(payment) = Accepted
  /\ pc'[p] = "reserve" \/ out' = Error(400, "INVALID_REQUEST", <<>>)

\* the complete ends with the payment failure
payment_failed_step(payment, code, status) ==
  /\ _process_payment(payment).kind = "PAYMENT_FAILED"
  /\ out' = Error(status, code, <<>>)

\* C14: for a selected instrument with a token credential, the mock
\* handler accepts success_token, rejects fail_token with payment failure
\* INSUFFICIENT_FUNDS (402), fraud_token with FRAUD_DETECTED (403) and
\* every other token with UNKNOWN_TOKEN (402); google_pay and shop_pay
\* accept every token.
C14_TokenDispatch ==
  [][\A p \in Procs :
       receives(p) =>
          \A payment \in Instruments, key \in FreshKeys(RaceKeySeq) :
             (/\ ~terminal(Cid("c1"))
              /\ payment.id # "" /\ payment.credential = "token"
              /\ Receive(p, "complete", Cid("c1"), key, payment))
             => CASE payment.handler_id = "mock_payment_handler" ->
                       CASE payment.token = "success_token" -> paid_step(p, payment)
                         [] payment.token = "fail_token" ->
                              payment_failed_step(payment, "INSUFFICIENT_FUNDS", 402)
                         [] payment.token = "fraud_token" ->
                              payment_failed_step(payment, "FRAUD_DETECTED", 403)
                         [] OTHER -> payment_failed_step(payment, "UNKNOWN_TOKEN", 402)
                  [] payment.handler_id \in {"google_pay", "shop_pay"} ->
                       paid_step(p, payment)
                  [] OTHER -> TRUE]_vars

\* the mock handler has rejected a fraud_token; a session is still to complete
C14_FraudDetected ==
  /\ out = Error(403, "FRAUD_DETECTED", <<>>)
  /\ checkouts[Cid("c1")].status = READY_FOR_COMPLETE

\* the instrument names a handler the dispatcher does not know
unknown_handler(payment) ==
  /\ payment.id # "" /\ payment.credential \in {"token", "card"}
  /\ payment.handler_id \notin {"mock_payment_handler", "google_pay", "shop_pay"}

unsupported_handler_step ==
  out' = Error(400, "INVALID_REQUEST", <<"Unsupported payment handler">>)

\* C15 as stated: a selected instrument with a credential, token or card,
\* and a handler other than mock_payment_handler, google_pay and shop_pay
\* makes payment dispatch fail with INVALID_REQUEST.
C15_UnknownHandlerRejected ==
  [][\A p \in Procs :
       receives(p) =>
          \A payment \in Instruments, key \in FreshKeys(RaceKeySeq) :
             (/\ ~terminal(Cid("c1"))
              /\ unknown_handler(payment)
              /\ Receive(p, "complete", Cid("c1"), key, payment))
             => unsupported_handler_step]_vars

\* C15, amended: a selected instrument with a token credential and a
\* handler other than mock_payment_handler, google_pay and shop_pay makes
\* payment dispatch fail with INVALID_REQUEST (status 400); an instrument
\* with a card credential is accepted whatever its handler.
C15_UnknownHandlerRejectedForTokens ==
  [][\A p \in Procs :
       receives(p) =>
          \A payment \in Instruments, key \in FreshKeys(RaceKeySeq) :
             (/\ ~terminal(Cid("c1"))
              /\ unknown_handler(payment)
              /\ Receive(p, "complete", Cid("c1"), key, payment))
             => IF payment.credential = "token"
                THEN /\ unsupported_handler_step
                     /\ _process_payment(payment).kind = "INVALID_REQUEST"
                     /\ UNCHANGED Stored
                ELSE paid_step(p, payment)]_vars

\* an unknown handler has been refused
C15_HandlerRefused ==
  /\ out = Error(400, "INVALID_REQUEST", <<"Unsupported payment handler">>)
  /\ checkouts[Cid("c1")].status = READY_FOR_COMPLETE

\* the sum of the amounts of the entries of the type
RECURSIVE amount_of(_, _)
amount_of(totals, type) ==
  IF totals = <<>> THEN 0
  ELSE (IF Head(totals).type = type THEN Head(totals).amount ELSE 0)
       + amount_of(Tail(totals), type)

entries_of(totals, type) == {i \in DOMAIN totals : totals[i].type = type}

\* C16: the totals of every stored session are non-empty, end with an
\* entry of type total, hold one subtotal entry, and the amount of the
\* last entry is the subtotal plus the fulfillment entries minus the
\* discount entries.
C16_TotalIsSum ==
  \A id \in DOMAIN checkouts :
     LET totals == checkouts[id].data.totals
     IN /\ totals # <<>>
        /\ totals[Len(totals)].type = "total"
        /\ Cardinality(entries_of(totals, "subtotal")) = 1
        /\ entries_of(totals, "total") = {Len(totals)}
        /\ totals[Len(totals)].amount =
              amount_of(totals, "subtotal") + amount_of(totals, "fulfillment")
              - amount_of(totals, "discount")

\* a stored session that pays for its shipping and has two discounts
C16_ShippedAndDiscounted ==
  \E id \in DOMAIN checkouts :
     /\ amount_of(checkouts[id].data.totals, "fulfillment") > 0
     /\ Cardinality(entries_of(checkouts[id].data.totals, "discount")) = 2

\* what the line items cost at the prices of the catalog
RECURSIVE catalog_amount(_)
catalog_amount(line_items) ==
  IF line_items = <<>> THEN 0
  ELSE Product(Head(line_items).product).price * Head(line_items).quantity
       + catalog_amount(Tail(line_items))

\* every line has one subtotal entry, the catalog price of its product times
\* its quantity, and the subtotal of the session is the sum of these
priced(checkout) ==
  /\ \A i \in DOMAIN checkout.line_items :
        LET line == checkout.line_items[i]
        IN /\ Cardinality(entries_of(line.totals, "subtotal")) = 1
           /\ amount_of(line.totals, "subtotal") = catalog_amount(<<line>>)
  /\ Cardinality(entries_of(checkout.totals, "subtotal")) = 1
  /\ amount_of(checkout.totals, "subtotal") = catalog_amount(checkout.line_items)

\* C17: after every successful create or update, each line item of the
\* session, as answered and as stored, has exactly one subtotal entry whose
\* amount is the catalog price of its product times its quantity, and the
\* subtotal entry of the session is the sum of these amounts.
C17_SubtotalsFromCatalog ==
  [][\A p \in Procs :
       (/\ pc[p] = "commit" /\ req[p].op \in {"create", "update"} /\ answers(p)
        /\ out'.status \in {200, 201})
       => /\ priced(out'.body)
          /\ priced(checkouts'[req[p].target].data)]_vars

\* an update has answered with a cart of two lines whose quantities differ
C17_TwoLinesPriced ==
  /\ out.status = 200
  /\ Len(out.body.line_items) = 2
  /\ out.body.line_items[1].quantity = 2
  /\ amount_of(out.body.totals, "subtotal") = 2800

\* the line items without what the client claims of their titles and prices
unclaimed(line_items) ==
  [i \in DOMAIN line_items |-> [line_items[i] EXCEPT !.title = "", !.price = 0]]

\* two requests that differ only in the client's titles and prices
twins(body, twin) ==
  /\ body # twin
  /\ [body EXCEPT !.line_items = unclaimed(@)] = [twin EXCEPT !.line_items = unclaimed(@)]

\* the same item prices, item titles, line totals and session totals
priced_alike(x, y) ==
  /\ Len(x.line_items) = Len(y.line_items)
  /\ \A i \in DOMAIN x.line_items :
        /\ x.line_items[i].price = y.line_items[i].price
        /\ x.line_items[i].title = y.line_items[i].title
        /\ x.line_items[i].totals = y.line_items[i].totals
  /\ x.totals = y.totals

\* C18: when a create or an update has built its session, the same command
\* with any request that differs only in the titles and prices the client
\* gave its line items, run on the same stored session, catalog and
\* inventory, builds a session with the same item prices, item titles,
\* line totals and session totals.
C18_ClientClaimsIgnored ==
  [][\A p \in Procs :
       (/\ receives(p) /\ pc'[p] = "commit"
        /\ req'[p].op \in {"create", "update"})
       => \A twin \in TotalsCreateBodies \cup TotalsUpdateBodies :
             twins(req'[p].body, twin)
             => LET other == started(p, [req'[p] EXCEPT !.body = twin])
                IN /\ other.pc = "commit"
                   /\ priced_alike(other.local.checkout, local'[p].checkout)]_vars

\* an update whose client calls the roses a bargain at 1 has built its
\* session: the roses have the title and the price of the catalog
C18_BargainIgnored ==
  \E p \in Procs :
     /\ pc[p] = "commit" /\ req[p].op = "update"
     /\ req[p].body.line_items # <<>>
     /\ req[p].body.line_items[1].title = "Bargain"
     /\ req[p].body.line_items[1].price = 1
     /\ local[p].checkout.line_items[1].title = "Red Rose"
     /\ local[p].checkout.line_items[1].price = 1000

\* some line asks for more than the stock of its product, or for a product
\* without an inventory row
unstocked(line_items) ==
  \E i \in DOMAIN line_items :
     \/ line_items[i].product \notin DOMAIN inventory
     \/ inventory[line_items[i].product] < line_items[i].quantity

\* every line names a product of the catalog
all_known(line_items) == \A i \in DOMAIN line_items : get_product(line_items[i].product)

\* a create, or an update of a stored session that is neither completed nor
\* canceled
builds(c) ==
  \/ c.op = "create"
  \/ c.op = "update" /\ c.target \in DOMAIN checkouts /\ ~terminal(c.target)

\* the create or update is refused for the stock, and nothing is stored
refused_for_stock ==
  /\ out'.status = 400 /\ out'.code = "OUT_OF_STOCK"
  /\ UNCHANGED Stored

\* the stock never grows and a complete answers 200 only when the stock,
\* as committed before its own reservation, covers every line of the session
completes_from_stock ==
  /\ \A id \in DOMAIN inventory' : id \in DOMAIN inventory /\ inventory'[id] <= inventory[id]
  /\ \A p \in Procs :
        (/\ pc[p] \notin {"idle", "done"} /\ req[p].op = "complete" /\ answers(p)
         /\ out'.status = 200)
        => /\ ~unstocked(checkouts[req[p].target].data.line_items)
           /\ checkouts'[req[p].target].status = COMPLETED
  /\ \A id \in DOMAIN checkouts' :
        (checkouts'[id].status = COMPLETED
         /\ (id \notin DOMAIN checkouts \/ checkouts[id].status # COMPLETED))
        => \E p \in Procs : req[p].op = "complete" /\ req[p].target = id /\ answers(p)
                             /\ out'.status = 200

\* C19 as stated: a create or update with a line item whose quantity
\* exceeds the inventory of its product, or whose product has no inventory
\* row, fails with 400 OUT_OF_STOCK and stores nothing; a session with such
\* a line is not completed.
C19_StockRequired ==
  [][/\ completes_from_stock
     /\ \A p \in Procs :
          receives(p) =>
             \A c \in StockCommands, key \in FreshKeys(KeySeq) :
                (/\ builds(c) /\ unstocked(lines_of(c))
                 /\ Receive(p, c.op, c.target, key, c.body))
                => refused_for_stock]_vars

\* C19, for carts of catalog products: a create or update, every line item
\* of which names a product of the catalog and one of which exceeds the
\* inventory of its product or has no inventory row, fails with 400
\* OUT_OF_STOCK and stores nothing; a session with such a line is not
\* completed.
C19_StockRequiredOfCatalogProducts ==
  [][/\ completes_from_stock
     /\ \A p \in Procs :
          receives(p) =>
             \A c \in StockCommands, key \in FreshKeys(KeySeq) :
                (/\ builds(c) /\ unstocked(lines_of(c)) /\ all_known(lines_of(c))
                 /\ Receive(p, c.op, c.target, key, c.body))
                => refused_for_stock]_vars

\* a cart of roses has been refused where the roses have no inventory row,
\* and the session of one rose is still ready where a complete has been
\* refused
C19_NoRowRefused ==
  /\ "rose" \notin DOMAIN inventory
  /\ out.status = 400 /\ out.code = "OUT_OF_STOCK"
  /\ checkouts[Cid("c1")].status = READY_FOR_COMPLETE
  /\ DOMAIN idem = {"k1"}

\* C20: when a handler that missed the idempotency lookup answers after
\* another request with the same key and the same request hash has stored
\* its record, it answers with the stored status and body, and it changes
\* neither the record nor sessions, inventory and orders: both callers
\* observe the same response and the effects of the command are applied
\* once.
C20_SameKeySameResponse ==
  [][\A p \in Procs :
       (/\ pc[p] \notin {"idle", "done"} /\ answers(p)
        /\ req[p].key \in DOMAIN idem
        /\ idem[req[p].key].request_hash = request_hash(req[p].op, req[p].body))
       => /\ out'.status = idem[req[p].key].response_status
          /\ out'.body = idem[req[p].key].response_body
          /\ UNCHANGED Stored]_vars

\* the amounts of the discounts of the codes, in their order, against the
\* running grand total, in integer arithmetic: the floor of
\* grand_total * value / 100 for a percentage, the value for a fixed
\* amount, and nothing for an amount that is not positive
RECURSIVE integer_discounts(_, _)
integer_discounts(codes, grand_total) ==
  IF codes = <<>> THEN <<>>
  ELSE LET at == discount_index(Head(codes))
           amount == IF at = 0 THEN 0
                     ELSE IF Discounts[at].type = "percentage"
                     THEN (grand_total * Discounts[at].value) \div 100
                     ELSE Discounts[at].value
       IN IF amount > 0
          THEN <<amount>> \o integer_discounts(Tail(codes), grand_total - amount)
          ELSE integer_discounts(Tail(codes), grand_total)

\* the amounts of the entries of the type, in their order
RECURSIVE amounts_of(_, _)
amounts_of(totals, type) ==
  IF totals = <<>> THEN <<>>
  ELSE (IF Head(totals).type = type THEN <<Head(totals).amount>> ELSE <<>>)
       \o amounts_of(Tail(totals), type)

\* C21: the discount entries of the totals of every stored session are the
\* amounts of its codes, taken in their order against the running grand
\* total (subtotal plus fulfillment totals minus the earlier discounts):
\* floor(grand_total * value / 100) in integer arithmetic for a percentage,
\* the value for a fixed amount, an entry only for an amount above 0; the
\* trailing total is what is left.
C21_IntegerDiscounts ==
  \A id \in DOMAIN checkouts :
     LET data == checkouts[id].data
         before == amount_of(data.totals, "subtotal") + amount_of(data.totals, "fulfillment")
     IN /\ amounts_of(data.totals, "discount") = integer_discounts(data.discounts.codes, before)
        /\ data.totals[Len(data.totals)].amount
             = before - SumSeq(integer_discounts(data.discounts.codes, before))

\* the answer to a command on a checkout or order that is not stored
not_found ==
  /\ out'.status = 404 /\ out'.code = "RESOURCE_NOT_FOUND"
  /\ UNCHANGED Stored

\* C22: get, update, complete and cancel on a checkout id with no stored
\* session, and get_order, update_order and ship_order on an order id with
\* no stored order, answer 404 RESOURCE_NOT_FOUND and leave sessions,
\* orders, idempotency records and inventory as they were (update, complete
\* and cancel with a key that is not stored).
C22_NotFound ==
  [][\A p \in Procs :
       receives(p) =>
          /\ \A id \in CheckoutIds \ DOMAIN checkouts : GetCheckout(p, id) => not_found
          /\ \A c \in Commands, key \in ClientKeys \ DOMAIN idem :
                (/\ c.op \in {"update", "complete", "cancel"}
                 /\ c.target \notin DOMAIN checkouts
                 /\ Receive(p, c.op, c.target, key, c.body))
                => not_found
          /\ \A id \in OrderIds \ DOMAIN orders :
                (GetOrder(p, id) \/ UpdateOrder(p, id, NoBody) \/ ShipLoad(p, id))
                => not_found]_vars

\* a command on the session c2 or on an order has been answered with 404
\* while c1 is stored, c2 is not and there is no order
C22_Missing ==
  /\ out.status = 404 /\ out.code = "RESOURCE_NOT_FOUND"
  /\ DOMAIN checkouts = {Cid("c1")}
  /\ orders = <<>>

\* the agent carries a version and its date is after 2026-01-11, the
\* server's
later(date) ==
  /\ date # <<>>
  /\ \/ date[1] > 2026
     \/ date[1] = 2026 /\ date[2] > 1
     \/ date[1] = 2026 /\ date[2] = 1 /\ date[3] > 11

\* the request is refused for its version and nothing changes
version_unsupported ==
  /\ out'.status = 400 /\ out'.code = "VERSION_UNSUPPORTED"
  /\ UNCHANGED <<inventory, txInventory, lock, checkouts, orders, idem>>

committed(p) ==
  LET id == req[p].target
  IN /\ req[p].op = "complete"
     /\ lock # p
     /\ checkouts[id].status = COMPLETED
     /\ checkouts[id].data.order \in DOMAIN orders
     /\ req[p].key \in DOMAIN idem
     /\ idem[req[p].key] = idempotency_row(req[p], 200, checkouts[id].data)
     /\ checkouts[id].data.webhook_url # ""

\* C24: a handler comes to the order_placed notification only from the
\* step that commits its complete, with the completed session, the order,
\* the reserved inventory and its idempotency record stored, and only for
\* a session with a webhook_url; a replayed or failed complete does not
\* come to it; delivered or not, the notification ends with the answer
\* 200 and the session, and changes nothing that is stored.
C24_NotifyAfterCommit ==
  [][\A p \in Procs :
       /\ (pc'[p] = "notify" /\ pc[p] # "notify")
          => /\ pc[p] = "order"
             /\ checkouts[req[p].target].status = READY_FOR_COMPLETE
             /\ req[p].key \notin DOMAIN idem
             /\ inventory' = IF lock = p THEN txInventory ELSE inventory
             /\ committed(p)'
       /\ pc[p] = "notify"
          => /\ committed(p)
             /\ pc'[p] \in {"notify", "done"}
             /\ pc'[p] = "done"
                => /\ out' = Response(200, checkouts[req[p].target].data)
                   /\ UNCHANGED Stored]_vars

\* a handler is at the notification of its completed session
C24_Notifying ==
  \E p \in Procs :
     /\ pc[p] = "notify"
     /\ checkouts[Cid("c1")].status = COMPLETED
     /\ orders # <<>>

\* the handler p answers 200 to a ship_order in this step
ships(p) ==
  /\ pc[p] = "ship" /\ pc'[p] = "done"
  /\ out'.status = 200

\* C25: each successful ship_order appends exactly one event of type
\* shipped to the stored order's events and keeps the earlier events in
\* order, and changes no inventory and no checkout session.
C25_ShipAppendsOne ==
  [][\A p \in Procs :
       ships(p) =>
          /\ \E event \in {local[p].events[Len(local[p].events)]} :
                /\ event.type = "shipped"
                /\ orders'[req[p].target].events
                     = Append(orders[req[p].target].events, event)
          /\ \A id \in DOMAIN orders \ {req[p].target} : orders'[id] = orders[id]
          /\ UNCHANGED <<inventory, checkouts>>]_vars

\* the handler p ends with success, in this step, a create, update,
\* complete or cancel that it has executed (no replay); only the
\* notification, which cannot fail the command, may follow
succeeds(p) ==
  /\ pc[p] \notin {"idle", "done", "notify"}
  /\ req[p].op \in {"create", "update", "complete", "cancel"}
  /\ \/ pc'[p] = "done" /\ out'.status \in {200, 201}
     \/ pc'[p] = "notify"

\* C26: a stored idempotency record never changes, and the records a step
\* adds are exactly the one of the create, update, complete or cancel that
\* succeeds in that step, under its key: reads, failed commands, replays
\* and order commands add none.
C26_RecordsWrittenOnce ==
  [][/\ \A key \in DOMAIN idem : key \in DOMAIN idem' /\ idem'[key] = idem[key]
     /\ DOMAIN idem' \ DOMAIN idem
          = {req[p].key : p \in {q \in Procs : succeeds(q)}}]_vars

\* the record of a create is kept as written while a later command, with
\* a record of its own, has ended the session
C26_RecordKept ==
  \E key \in DOMAIN idem :
     /\ idem[key].response_status = 201
     /\ idem[key].response_body.id \in DOMAIN checkouts
     /\ checkouts[idem[key].response_body.id].status \in {COMPLETED, CANCELED}
     /\ idem[key].response_body.status = READY_FOR_COMPLETE
     /\ Cardinality(DOMAIN idem) >= 2
     /\ out.status \in {404, 409, 400}

\* the answer is the error the payment dispatch raises for the instrument
payment_error(payment) ==
  /\ out'.status = _process_payment(payment).status
  /\ out'.code = _process_payment(payment).code

\* some quantity, committed or of the open transaction, goes down
decrements ==
  \E product \in DOMAIN inventory :
     \/ inventory'[product] < inventory[product]
     \/ txInventory'[product] < txInventory[product]

\* C27: complete checks, in this order, the idempotency key, the existence
\* and the state of the session, the payment, the fulfillment selection,
\* and only then reserves; the first check that fails gives the error, and
\* inventory goes down, in the transaction or committed, only in a handler
\* whose complete passed the payment and the fulfillment checks.
C27_CheckOrder ==
  [][\A p \in Procs :
       /\ ((pc'[p] # pc[p] \/ local'[p] # local[p]) /\ decrements)
            => /\ req[p].op = "complete"
               /\ _process_payment(req[p].body) = Accepted
               /\ fulfillment_valid(local[p].checkout)
       /\ (receives(p) /\ (pc'[p] = "done" \/ req'[p].op = "complete")) =>
            \A id \in CheckoutIds, payment \in Payments, key \in ClientKeys :
               Receive(p, "complete", id, key, payment) =>
                  IF key \in DOMAIN idem
                  THEN /\ out'.status \in {200, 409}
                       /\ out'.status = 409 => out'.code = "IDEMPOTENCY_CONFLICT"
                       /\ out'.status = 200 => out'.body = idem[key].response_body
                  ELSE IF id \notin DOMAIN checkouts
                  THEN out'.status = 404 /\ out'.code = "RESOURCE_NOT_FOUND"
                  ELSE IF checkouts[id].status \in {COMPLETED, CANCELED}
                  THEN out'.status = 409 /\ out'.code = "CHECKOUT_NOT_MODIFIABLE"
                  ELSE IF _process_payment(payment) # Accepted
                  THEN payment_error(payment)
                  ELSE IF ~fulfillment_valid(checkouts[id].data)
                  THEN out'.status = 400 /\ out'.code = "INVALID_REQUEST"
                  ELSE /\ pc'[p] \in {"reserve", "order"}
                       /\ ~decrements]_vars

\* a complete has just been refused for its payment although no stored
\* session has a fulfillment selection: the payment is looked at first
C27_PaymentBeforeFulfillment ==
  /\ out.status = 402 /\ out.code = "INSUFFICIENT_FUNDS"
  /\ checkouts # <<>>
  /\ \A id \in DOMAIN checkouts :
        /\ checkouts[id].status = READY_FOR_COMPLETE
        /\ ~fulfillment_valid(checkouts[id].data)

\* the selections of the method name a destination and options it holds
resolves(method) ==
  /\ method.selected_destination_id # NoId
        => \E d \in DOMAIN method.destinations :
              method.destinations[d].id = method.selected_destination_id
  /\ \A g \in DOMAIN method.groups :
        method.groups[g].selected_option_id # ""
           => \E o \in DOMAIN method.groups[g].options :
                 method.groups[g].options[o].id = method.groups[g].selected_option_id

\* C28: in every stored session the selected destination of each method,
\* when set, is one of the method's destinations, and the selected option
\* of each group, when set, is one of the group's options.
C28_SelectionsResolve ==
  \A id \in DOMAIN checkouts :
     \A j \in DOMAIN checkouts[id].data.methods : resolves(checkouts[id].data.methods[j])

\* the ids and selections of the groups, which recompute leaves alone
selections(groups) ==
  [g \in DOMAIN groups |-> <<groups[g].id, groups[g].selected_option_id>>]

\* the method the update stores for the request method m_req, which has no
\* id, follows the merge rules with respect to the one method prior
merged(m_req, prior, method) ==
  /\ method.id = prior.id
  /\ "destinations" \notin m_req.given => method.destinations = prior.destinations
  /\ ("groups" \notin m_req.given /\ prior.groups # <<>>)
        => selections(method.groups) = selections(prior.groups)
  /\ ("destinations" \in m_req.given /\ m_req.destinations = <<>>)
        => method.destinations = <<>>
  /\ ("groups" \in m_req.given /\ m_req.groups = <<>>)
        => \A g \in DOMAIN method.groups, h \in DOMAIN prior.groups :
              method.groups[g].id # prior.groups[h].id

\* C29: when an update gives a fulfillment, a request method without id is
\* matched to the session's only method and keeps its id; destinations or
\* groups the request omits stay as they were in that method; destinations
\* or groups the request gives as an empty list are replaced by the empty
\* list.
C29_FulfillmentMerge ==
  [][\A p \in Procs :
       (/\ free(p) /\ pc'[p] = "commit"
        /\ req'[p].op = "update" /\ req'[p].body.has_fulfillment
        /\ Len(checkouts[req'[p].target].data.methods) = 1)
       => \A j \in DOMAIN req'[p].body.methods :
             req'[p].body.methods[j].id = NoId
                => merged(req'[p].body.methods[j],
                          checkouts[req'[p].target].data.methods[1],
                          local'[p].checkout.methods[j])]_vars

\* the index of the method's selected destination among its destinations,
\* 0 when it has none or the id is not among them
destination_index(method) ==
  IF method.selected_destination_id = NoId THEN 0
  ELSE FirstIndex(method.destinations, LAMBDA d : d.id = method.selected_destination_id)

\* the list the fulfillment evaluator returns for the selected destination
\* of the shipping method of the session (the sessions have one method at
\* most, so the evaluator is given the subtotal)
evaluated(data, method) ==
  calculate_options(method.destinations[destination_index(method)].address_country, Promotions,
                    amount_of(data.totals, "subtotal"),
                    target_product_ids(data.line_items, method))

\* the evaluator is called for the method and the method has groups
evaluates(method) ==
  method.type = "shipping" /\ destination_index(method) # 0 /\ method.groups # <<>>

\* the fulfillment totals the groups of the method are due
due(data, method) ==
  IF ~evaluates(method) THEN <<>>
  ELSE Flatten([g \in DOMAIN method.groups |->
                  LET at == FirstIndex(evaluated(data, method),
                                       LAMBDA o : o.id = method.groups[g].selected_option_id)
                  IN IF at = 0 THEN <<>> ELSE <<evaluated(data, method)[at].amount>>])

\* C30: in every stored session, the groups of a shipping method whose
\* selected destination is one of its destinations hold the options the
\* fulfillment evaluator returns for that destination, also when it returns
\* none, and the fulfillment entries of the totals are those of the groups
\* whose selected option is one of these options.
C30_OptionsRefreshed ==
  \A id \in DOMAIN checkouts :
     LET data == checkouts[id].data
     IN /\ \A j \in DOMAIN data.methods :
              evaluates(data.methods[j])
                 => \A g \in DOMAIN data.methods[j].groups :
                       data.methods[j].groups[g].options = evaluated(data, data.methods[j])
        /\ amounts_of(data.totals, "fulfillment")
             = Flatten([j \in DOMAIN data.methods |-> due(data, data.methods[j])])

\* the rate of the shipping rates table with the id
rate_of(id) == ShippingRates[FirstIndex(ShippingRates, LAMBDA r : r.id = id)]

\* C31: the evaluator holds a request eligible for free shipping exactly
\* when a promotion of type free_shipping has a min_subtotal, 0 included,
\* that the subtotal reaches, or lists one of the product ids; when
\* eligible the option of level standard has amount 0 and the title suffix
\* " (Free)", and every other option has the price and the title of its
\* rate.
C31_FreeShipping ==
  Len(out.detail) = 4 =>
     LET promotions == out.detail[2]
         eligible == \E i \in DOMAIN promotions :
                        /\ promotions[i].type = "free_shipping"
                        /\ \/ promotions[i].min_subtotal <= out.detail[3]
                           \/ promotions[i].eligible_item_ids \cap out.detail[4] # {}
     IN \A o \in DOMAIN out.body :
           LET rate == rate_of(out.body[o].id)
               zero == eligible /\ rate.service_level = "standard"
           IN /\ out.body[o].amount = IF zero THEN 0 ELSE rate.price
              /\ out.body[o].title = <<rate.title, IF zero THEN " (Free)" ELSE "">>

\* the prices of the line items
prices(line_items) == [i \in DOMAIN line_items |-> line_items[i].price]

\* C32: the item prices and the totals of a completed session and of its
\* order are those a recompute gives at completion, from the catalog, the
\* promotions and the discounts as they are then.
C32_RecomputedAtCompletion ==
  \A id \in DOMAIN checkouts :
     checkouts[id].status = COMPLETED =>
        LET data == checkouts[id].data
            recomputed == _recalculate_totals(data, [p |-> 0, k |-> ""]).checkout
        IN /\ prices(data.line_items) = prices(recomputed.line_items)
           /\ data.totals = recomputed.totals
           /\ prices(orders[data.order].line_items) = prices(recomputed.line_items)
           /\ orders[data.order].totals = recomputed.totals

\* the codes that have a definition in the discounts table
known(codes) == SelectSeq(codes, LAMBDA code : discount_index(code) # 0)

\* the session a create builds for the body when the codes without
\* definition are left out of it
without_unknown(body, gen) ==
  _recalculate_totals(create_build([body EXCEPT !.codes = known(body.codes)], gen), gen).checkout

\* C33: a discount code without definition does not fail the create or the
\* update, gets no applied entry and no discount total, and the create
\* computes the totals and the applied entries it computes for the same
\* request without that code.
C33_UnknownCodesIgnored ==
  [][\A p \in Procs :
       /\ (free(p) /\ pc'[p] = "commit" /\ req'[p].op \in {"create", "update"})
            => \A a \in DOMAIN local'[p].checkout.discounts.applied :
                  discount_index(local'[p].checkout.discounts.applied[a].code) # 0
       /\ (free(p) /\ pc'[p] = "commit" /\ req'[p].op = "create")
            => /\ local'[p].checkout.totals
                    = without_unknown(req'[p].body, uuid4(p, req'[p].key)).totals
               /\ local'[p].checkout.discounts.applied
                    = without_unknown(req'[p].body, uuid4(p, req'[p].key)).discounts.applied
       /\ (receives(p) /\ pc'[p] = "done" /\ out'.status >= 400)
            => \A body \in {b \in TotalsCreateBodies : known(b.codes) # b.codes},
                  key \in FreshKeys(TotalsKeySeq) :
                  ~Receive(p, "create", body.id, key, body)]_vars

\* a stored session names a code without definition and has the discount
\* of its other code applied
C33_OtherCodeApplied ==
  \E id \in DOMAIN checkouts :
     /\ known(checkouts[id].data.discounts.codes) # checkouts[id].data.discounts.codes
     /\ Len(checkouts[id].data.discounts.applied) = 1
     /\ amount_of(checkouts[id].data.totals, "discount") > 0

\* the method/group pairs of the session whose group has an option selected
selected_pairs(session) ==
  {pair \in UNION {{<<j, g>> : g \in DOMAIN session.methods[j].groups} :
                     j \in DOMAIN session.methods} :
      session.methods[pair[1]].groups[pair[2]].selected_option_id # ""}

\* the id and quantity of the session line items the group names, in the
\* session's order
named_lines(session, group) ==
  LET kept == SelectSeqBy(session.line_items,
                          {i \in DOMAIN session.line_items :
                              session.line_items[i].id \in Range(group.line_item_ids)})
  IN [i \in DOMAIN kept |-> [id |-> kept[i].id, quantity |-> kept[i].quantity]]

\* the order mirrors the session it was created for
mirrors(order, session) ==
  /\ Len(order.line_items) = Len(session.line_items)
  /\ \A i \in DOMAIN order.line_items :
        /\ order.line_items[i].id = session.line_items[i].id
        /\ order.line_items[i].quantity = [total |-> session.line_items[i].quantity,
                                           fulfilled |-> 0]
        /\ order.line_items[i].status = "processing"
  /\ order.totals = session.totals
  /\ order.events = <<>>
  /\ Len(order.expectations) = Cardinality(selected_pairs(session))
  /\ \A pair \in selected_pairs(session) :
        \E e \in DOMAIN order.expectations :
           /\ order.expectations[e].method_type = session.methods[pair[1]].type
           /\ order.expectations[e].line_items
                = named_lines(session, session.methods[pair[1]].groups[pair[2]])

\* C34: the order a successful complete creates has the session's line
\* items in order, each with quantity total the session quantity, fulfilled
\* 0 and status processing, the session's totals, no events, and one
\* expectation for each method/group pair with a selected option, holding
\* the session line items the group names.
C34_OrderMirrorsSession ==
  [][\A p \in Procs :
       (pc[p] = "order" /\ orders' # orders)
          => \A id \in DOMAIN orders' \ DOMAIN orders :
                mirrors(orders'[id], local[p].checkout)]_vars

\* the orders stored for the checkout session
orders_of(id) == {o \in DOMAIN orders : orders[o].checkout_id = id}

\* C35: of the complete commands sent to one session under distinct keys, in
\* any interleaving, at most one succeeds: a handler creates an order, and
\* deducts the session's quantities from the inventory, only for a session
\* that has no order.
C35_OneOrderPerSession ==
  [][\A p \in Procs :
       (pc[p] = "order" /\ (orders' # orders \/ inventory' # inventory))
          => orders_of(local[p].checkout.id) = {}]_vars

\* the session has its order, a later complete was refused because the
\* session is completed, and the stock would have covered the session again
C35_SecondCompleteRefused ==
  /\ out.code = "CHECKOUT_NOT_MODIFIABLE"
  /\ \E id \in DOMAIN checkouts :
        /\ Cardinality(orders_of(id)) = 1
        /\ checkouts[id].status = COMPLETED
        /\ \A i \in DOMAIN checkouts[id].data.line_items :
              reserve_stock_ok(inventory, checkouts[id].data.line_items[i].product,
                               checkouts[id].data.line_items[i].quantity)

\* the successful answer is the session the command was addressed to, as
\* it is stored after the step
answers_for(id) ==
  /\ out'.body.id = id
  /\ id \in DOMAIN checkouts'
  /\ checkouts'[id].data = out'.body

\* C36: every successful update, complete or cancel addressed to a checkout
\* id returns the session of that id, stored as returned, whatever the
\* idempotency keys were used for before: also when the key was used with
\* an equal request on another checkout.
C36_ActsOnAddressed ==
  [][\A p \in Procs :
       /\ (receives(p) /\ pc'[p] = "done" /\ out'.status = 200)
            => \A id \in CheckoutIds, key \in DOMAIN idem :
                  /\ Receive(p, "cancel", id, key, NoBody) => answers_for(id)
                  /\ \A payment \in Payments :
                        Receive(p, "complete", id, key, payment) => answers_for(id)
                  /\ \A body \in UpdateBodies :
                        Receive(p, "update", id, key, body) => answers_for(id)
       /\ (~free(p) /\ answers(p) /\ out'.status = 200
            /\ req[p].op \in {"update", "complete", "cancel"})
            => answers_for(req[p].target)]_vars

\* the handler p commits the command op on the session id in this step
commits(p, op, id) ==
  /\ pc[p] \in {"commit", "order"} /\ pc'[p] # pc[p]
  /\ req[p].op = op /\ req[p].target = id

\* C37: every stored session has status ready_for_complete, completed or
\* canceled, and the status of a stored session changes only from
\* ready_for_complete to completed, by a complete, and from
\* ready_for_complete to canceled, by a cancel.
C37_StatusChanges ==
  [][/\ \A id \in DOMAIN checkouts' :
          /\ checkouts'[id].status \in {READY_FOR_COMPLETE, COMPLETED, CANCELED}
          /\ checkouts'[id].data.status = checkouts'[id].status
     /\ \A id \in DOMAIN checkouts :
          (id \in DOMAIN checkouts' /\ checkouts'[id].status # checkouts[id].status)
             => /\ checkouts[id].status = READY_FOR_COMPLETE
                /\ \/ /\ checkouts'[id].status = COMPLETED
                      /\ \E p \in Procs : commits(p, "complete", id)
                   \/ /\ checkouts'[id].status = CANCELED
                      /\ \E p \in Procs : commits(p, "cancel", id)]_vars

\* the amounts of the applied discounts of the session, in order
applied_amounts(session) ==
  [a \in DOMAIN session.discounts.applied |-> session.discounts.applied[a].amount]

\* C38: the session a successful create or update stores has one applied
\* discount for each discount entry of its totals, in the same order and
\* of the same amount, so that updates that do not send discounts leave
\* as many applied discounts as the session has effective codes.
C38_AppliedMatchTotals ==
  [][\A p \in Procs :
       (/\ pc[p] = "commit" /\ pc'[p] = "done" /\ out'.status \in {200, 201}
        /\ req[p].op \in {"create", "update"})
          => applied_amounts(checkouts'[req[p].target].data)
               = amounts_of(checkouts'[req[p].target].data.totals, "discount")]_vars

\* the quantity the order line items hold of the product
RECURSIVE ordered(_, _)
ordered(line_items, product) ==
  IF line_items = <<>> THEN 0
  ELSE (IF Head(line_items).product = product THEN Head(line_items).quantity.total ELSE 0)
       + ordered(Tail(line_items), product)

\* C39: the inventory of a product goes down only in the step of a
\* complete that creates an order, and then by the quantity that order
\* holds of the product; orders are created by complete only.  With no
\* order at the start, the initial inventory minus the current one is the
\* sum of the quantities of the orders created.  create, update, cancel,
\* get, ship_order, update_order and failed or replayed commands leave the
\* inventory unchanged.
C39_InventoryConserved ==
  [][/\ DOMAIN inventory' = DOMAIN inventory
     /\ Cardinality(DOMAIN orders' \ DOMAIN orders) <= 1
     /\ \A id \in DOMAIN orders' \ DOMAIN orders :
          /\ \E p \in Procs : /\ pc[p] = "order" /\ req[p].op = "complete"
                              /\ pc'[p] = "notify" \/ out'.status = 200
          /\ \A product \in DOMAIN inventory :
                inventory[product] - inventory'[product]
                  = ordered(orders'[id].line_items, product)
     /\ DOMAIN orders' \ DOMAIN orders = {} => inventory' = inventory]_vars

\* an order was created and the inventory is below the initial one
C39_StockDeducted ==
  /\ orders # <<>>
  /\ \E product \in DOMAIN inventory : inventory[product] < InitInventory[product]

====
